---- MODULE Spec2Model ----
(***************************************************************************)
(* Simulation and trace orchestration of the altitrace API                 *)
(* (packages/api): HyperEvmService::simulate_transaction / simulate_batch, *)
(* the RpcError classification of transport failures, and                  *)
(* TracingStrategy::from_config / execute / execute_call /                 *)
(* execute_call_many.                                                      *)
(*                                                                         *)
(* Strings are modelled as sequences of tokens (a token is a word or a     *)
(* fixed phrase); format!() is concatenation and str::contains is a        *)
(* per-token substring table.                                              *)
(***************************************************************************)
EXTENDS Integers, Sequences, FiniteSets, TLC

\* ------------------------------------------------------------------ bounds
\* longest upstream error text, in tokens
MaxText == 2
\* most calls in one simulation request
MaxCalls == 2
\* most requests in one batch
MaxBatch == 2

\* bundles per call-many request
MaxBundles == 2
\* bits of the unsigned integers gas is counted in (u64, scaled down)
U64Bits == 16
\* most struct logs in a frame converted on its own
MaxLogs == 3
\* most nodes in a call tree converted on its own
MaxNodes == 4
\* most elements in an untyped array payload
MaxElements == 2
\* longest Authorization header value, in units of text
MaxHeader == 5
\* longest configured API token, in units of text
MaxToken == 2
\* most requests the inner service is handed
MaxRequests == 2

\* ------------------------------------------------------------------ helpers
None == [tag |-> "None"]

Some(v) == [tag |-> "Some", val |-> v]

IsSome(o) == o.tag = "Some"

SeqsUpTo(S, n) == UNION {[1..k -> S] : k \in 0..n}

\* ------------------------------------------------------------------ text
\* A URL as an upstream error carries it.
UrlToken == "http://10.0.0.5:8545/rpc"

\* An IPv4 literal as an upstream error carries it.
IpToken == "10.0.0.5"

\* The tokens an upstream (remote node / transport) error text is made of.
Alphabet == {"node error", UrlToken, IpToken, "timeout", "revert"}

Texts == SeqsUpTo(Alphabet, MaxText)

TimeoutAdvice == "RPC request timeout, check if RPC is running and accepting connections"

RefusedAdvice == "RPC connection refused, check if RPC is running and accepting connections"

UnreachableAdvice == "RPC host unreachable, check network connectivity and RPC configuration"

ConnFailedAdvice == "RPC connection failed, check if RPC is running and accepting connections"

\* The patterns (among those the code searches for) that occur in a token.
Patterns(tok) ==
    CASE tok = "timeout" -> {"timeout"}
      [] tok = "revert" -> {"revert"}
      [] tok = "execution reverted" -> {"execution reverted", "revert"}
      [] tok = "connection refused" -> {"connection refused", "connection"}
      [] tok = TimeoutAdvice -> {"timeout", "connection"}
      [] tok = RefusedAdvice -> {"connection refused", "connection"}
      [] tok = ConnFailedAdvice -> {"connection"}
      [] tok = "Transaction execution reverted" -> {"execution reverted", "revert"}
      [] tok = "Execution reverted: " -> {"revert"}
      [] OTHER -> {}

\* str::contains(pat)
Contains(text, pat) == \E i \in 1..Len(text) : pat \in Patterns(text[i])

\* The text holds a URL.
HasUrl(text) == \E i \in 1..Len(text) : text[i] = UrlToken

\* The text holds an IPv4 literal (a URL with an IPv4 host holds one too).
HasIp(text) == \E i \in 1..Len(text) : text[i] \in {IpToken, UrlToken}

\* Regex::replace_all: every match of the pattern becomes the replacement.
ReplaceAll(text, matches, by) ==
    [i \in 1..Len(text) |-> IF text[i] \in matches THEN by ELSE text[i]]

sanitize_error_message(message) ==
    LET noUrl == ReplaceAll(message, {UrlToken}, "[RPC_ENDPOINT]")
        sanitized == ReplaceAll(noUrl, {IpToken}, "[RPC_HOST]")
    IN  IF Contains(sanitized, "error sending request") THEN <<TimeoutAdvice>>
        ELSE IF Contains(sanitized, "connection refused")
                \/ Contains(sanitized, "Connection refused") THEN <<RefusedAdvice>>
        ELSE IF Contains(sanitized, "No route to host")
                \/ Contains(sanitized, "Host unreachable") THEN <<UnreachableAdvice>>
        ELSE IF Contains(sanitized, "timeout")
                \/ Contains(sanitized, "timed out") THEN <<TimeoutAdvice>>
        ELSE sanitized

\* ------------------------------------------------------------------ transport errors
\* HTTP status codes a transport error may carry (0: no response).
HttpStatuses == {0, 302, 404, 429, 503}

\* alloy's TransportError (RpcError<TransportErrorKind>), as the remote call returns it.
TransportErrors ==
    {[kind |-> k] : k \in {"MissingBatchResponse", "BackendGone", "PubsubUnavailable",
                           "OtherTransport", "NullResp", "UnsupportedFeature",
                           "LocalUsageError"}}
    \cup {[kind |-> "HttpError", status |-> s, body |-> b] : s \in HttpStatuses, b \in Texts}
    \cup {[kind |-> "SerError", text |-> <<"key must be a string">>]}
    \cup {[kind |-> k, text |-> t] : k \in {"Custom", "DeserError", "ErrorResp"}, t \in Texts}

\* Display of an ErrorPayload: "error code {code}: {message}".
ErrorPayloadToString(e) == <<"error code -32000: ">> \o e.text

\* impl From<TransportError> for RpcError
RpcErrorFrom(err) ==
    CASE err.kind = "MissingBatchResponse" ->
            [kind |-> "InternalError", code |-> -32603,
             message |-> <<"Missing batch response for request ID: ", "1">>, data |-> None]
      [] err.kind = "BackendGone" ->
            [kind |-> "ConnectionFailed", details |-> <<"Backend connection has been lost">>,
             endpoint |-> None]
      [] err.kind = "PubsubUnavailable" ->
            [kind |-> "MethodNotFound",
             method |-> <<"Pubsub subscriptions are not available">>]
      [] err.kind = "HttpError" ->
            IF err.status = 429 THEN [kind |-> "RateLimited"]
            ELSE IF err.status >= 500 THEN
                [kind |-> "InternalError", code |-> err.status,
                 message |-> <<"HTTP error ", ToString(err.status), ": server error">>,
                 data |-> None]
            ELSE IF err.status = 0 \/ (err.status >= 400 /\ err.status < 500) THEN
                LET sanitized_body == sanitize_error_message(err.body)
                IN  IF Contains(sanitized_body, "timeout")
                       \/ Contains(sanitized_body, "connection")
                    THEN [kind |-> "Timeout", method |-> <<"http_request">>, duration_ms |-> 0]
                    ELSE [kind |-> "InvalidParams", method |-> <<"http_request">>,
                          details |-> <<"HTTP ", ToString(err.status), ": ">> \o sanitized_body]
            ELSE [kind |-> "InvalidParams", method |-> <<"http_request">>,
                  details |-> <<"HTTP ", ToString(err.status), ": request error">>]
      [] err.kind = "Custom" ->
            [kind |-> "InternalError", code |-> -32603,
             message |-> sanitize_error_message(err.text), data |-> None]
      [] err.kind = "OtherTransport" ->
            [kind |-> "InternalError", code |-> -32603,
             message |-> <<"Unknown transport error">>, data |-> None]
      [] err.kind = "SerError" ->
            [kind |-> "ParseError", details |-> <<"Serialization error: ">> \o err.text]
      [] err.kind = "DeserError" ->
            [kind |-> "ParseError",
             details |-> <<"Deserialization error: ", "expected value", " - text: ">>
                         \o err.text]
      [] err.kind = "ErrorResp" ->
            LET error_str == ErrorPayloadToString(err)
            IN  IF Contains(error_str, "execution reverted") \/ Contains(error_str, "revert")
                THEN [kind |-> "ExecutionReverted",
                      reason |-> <<"Transaction execution reverted">>,
                      data |-> Some(error_str)]
                ELSE [kind |-> "InternalError", code |-> -32603,
                      message |-> <<"RPC error: ">> \o error_str, data |-> None]
      [] err.kind = "NullResp" ->
            [kind |-> "ParseError", details |-> <<"Received null response from RPC">>]
      [] err.kind = "UnsupportedFeature" ->
            [kind |-> "MethodNotFound", method |-> <<"Unsupported feature: ", "batch">>]
      [] OTHER ->
            [kind |-> "InternalError", code |-> -32603,
             message |-> <<"Unknown RPC error">>, data |-> None]

\* #[error("...")] Display of RpcError
RpcErrorToString(e) ==
    CASE e.kind = "ConnectionFailed" -> <<"RPC connection failed: ">> \o e.details
      [] e.kind = "Timeout" -> <<"RPC request timeout">>
      [] e.kind = "MethodNotFound" -> <<"RPC method not found: ">> \o e.method
      [] e.kind = "InvalidParams" ->
            <<"Invalid RPC parameters for ">> \o e.method \o <<": ">> \o e.details
      [] e.kind = "InternalError" -> <<"RPC internal error: ">> \o e.message
      [] e.kind = "ParseError" -> <<"RPC response parse error: ">> \o e.details
      [] e.kind = "ExecutionReverted" -> <<"Execution reverted: ">> \o e.reason
      [] e.kind = "NodeSyncing" ->
            <<"Node syncing: current block ", ToString(e.current), ", highest block ",
              ToString(e.highest)>>
      [] e.kind = "BlockNotFound" -> <<"Block not found">>
      [] e.kind = "TransactionNotFound" -> <<"Transaction not found">>
      [] e.kind = "RateLimited" -> <<"Rate limited by node">>
      [] e.kind = "Transport" -> <<"Transport error: ">> \o e.text

\* RpcError::error_code
RpcErrorCode(e) ==
    CASE e.kind = "ConnectionFailed" -> "RPC_CONNECTION_FAILED"
      [] e.kind = "Timeout" -> "RPC_TIMEOUT"
      [] e.kind = "MethodNotFound" -> "RPC_METHOD_NOT_FOUND"
      [] e.kind = "InvalidParams" -> "RPC_INVALID_PARAMS"
      [] e.kind = "InternalError" -> "RPC_INTERNAL_ERROR"
      [] e.kind = "ParseError" -> "RPC_PARSE_ERROR"
      [] e.kind = "NodeSyncing" -> "NODE_SYNCING"
      [] e.kind = "BlockNotFound" -> "BLOCK_NOT_FOUND"
      [] e.kind = "TransactionNotFound" -> "TRANSACTION_NOT_FOUND"
      [] e.kind = "ExecutionReverted" -> "EXECUTION_REVERTED"
      [] e.kind = "RateLimited" -> "RPC_RATE_LIMITED"
      [] e.kind = "Transport" -> "RPC_TRANSPORT_ERROR"

\* error_code().to_lowercase().replace('_', "-")
ErrorTypeOf(code) ==
    CASE code = "RPC_CONNECTION_FAILED" -> "rpc-connection-failed"
      [] code = "RPC_TIMEOUT" -> "rpc-timeout"
      [] code = "RPC_METHOD_NOT_FOUND" -> "rpc-method-not-found"
      [] code = "RPC_INVALID_PARAMS" -> "rpc-invalid-params"
      [] code = "RPC_INTERNAL_ERROR" -> "rpc-internal-error"
      [] code = "RPC_PARSE_ERROR" -> "rpc-parse-error"
      [] code = "NODE_SYNCING" -> "node-syncing"
      [] code = "BLOCK_NOT_FOUND" -> "block-not-found"
      [] code = "TRANSACTION_NOT_FOUND" -> "transaction-not-found"
      [] code = "EXECUTION_REVERTED" -> "execution-reverted"
      [] code = "RPC_RATE_LIMITED" -> "rpc-rate-limited"
      [] OTHER -> "rpc-transport-error"

\* RpcError::suggestion
RpcErrorSuggestion(e) ==
    CASE e.kind = "ConnectionFailed" ->
            Some("Check your RPC endpoint URL and network connectivity")
      [] e.kind = "Timeout" -> Some(TimeoutAdvice)
      [] e.kind = "MethodNotFound" -> Some("The RPC method is not supported by this node")
      [] e.kind = "InvalidParams" ->
            IF Contains(e.details, "odd number of digits")
            THEN Some("Hex data must have an even number of characters")
            ELSE IF Contains(e.details, "Invalid 'data' hex")
            THEN Some("The 'data' field must be a valid hex string with 0x prefix")
            ELSE IF Contains(e.details, "Failed to convert call")
            THEN Some("Check transaction call parameters - address, data, value, gas fields")
            ELSE Some("Check the parameters format and types")
      [] e.kind = "NodeSyncing" -> Some("Wait for the node to finish syncing")
      [] e.kind = "BlockNotFound" -> Some("The block may not exist yet or has been pruned")
      [] e.kind = "TransactionNotFound" ->
            Some("The transaction hash is invalid or not yet mined")
      [] e.kind = "ExecutionReverted" ->
            Some("The transaction would revert, check contract conditions")
      [] e.kind = "RateLimited" -> Some("Too many requests, please slow down")
      [] OTHER -> None

\* RpcError::status_code
RpcErrorStatusCode(e) ==
    CASE e.kind \in {"ConnectionFailed", "Transport"} -> 502
      [] e.kind = "Timeout" -> 504
      [] e.kind = "MethodNotFound" -> 501
      [] e.kind = "InvalidParams" -> 400
      [] e.kind \in {"InternalError", "ParseError"} -> 500
      [] e.kind = "NodeSyncing" -> 503
      [] e.kind \in {"BlockNotFound", "TransactionNotFound"} -> 404
      [] e.kind = "ExecutionReverted" -> 200
      [] e.kind = "RateLimited" -> 429

\* ------------------------------------------------------------------ service and API errors
\* ServiceError::NodeCommunication(rpc), also From<RpcError> for ServiceError
NodeCommunication(rpc) == [kind |-> "NodeCommunication", rpc |-> rpc]

\* ServiceError::trace_failed
trace_failed(reason) == [kind |-> "TraceFailed", reason |-> reason]

\* ServiceError::invalid_block_context
invalid_block_context(reason) == [kind |-> "InvalidBlockContext", reason |-> reason]

\* ServiceError::access_list_failed
access_list_failed(reason) == [kind |-> "AccessListFailed", reason |-> reason]

\* ServiceError::error_code
ServiceErrorCode(e) ==
    CASE e.kind = "SimulationFailed" -> "SIMULATION_FAILED"
      [] e.kind = "TraceFailed" -> "TRACE_FAILED"
      [] e.kind = "ExecutionFailed" -> "EXECUTION_FAILED"
      [] e.kind = "InvalidBlockContext" -> "INVALID_BLOCK_CONTEXT"
      [] e.kind = "InvalidStateOverride" -> "INVALID_STATE_OVERRIDE"
      [] e.kind = "AccessListFailed" -> "ACCESS_LIST_FAILED"
      [] e.kind = "BundleValidationFailed" -> "BUNDLE_VALIDATION_FAILED"
      [] e.kind = "GasEstimationFailed" -> "GAS_ESTIMATION_FAILED"
      [] e.kind = "NodeCommunication" -> RpcErrorCode(e.rpc)
      [] e.kind = "ResourceExhausted" -> "RESOURCE_EXHAUSTED"
      [] e.kind = "OperationTimeout" -> "OPERATION_TIMEOUT"

\* ServiceError::suggestion
ServiceErrorSuggestion(e) ==
    CASE e.kind = "SimulationFailed" ->
            Some("Check transaction parameters and ensure the RPC node is accessible")
      [] e.kind = "TraceFailed" ->
            Some("Ensure the transaction exists and tracing is enabled on the node")
      [] e.kind = "ExecutionFailed" -> Some("Review transaction parameters and contract state")
      [] e.kind = "InvalidBlockContext" ->
            Some("Use a valid block number or tag (latest, earliest, safe, finalized)")
      [] e.kind = "InvalidStateOverride" -> Some("Check state override format and values")
      [] e.kind = "AccessListFailed" ->
            Some("Verify transaction parameters for access list generation")
      [] e.kind = "BundleValidationFailed" ->
            Some("Check bundle format and transaction dependencies")
      [] e.kind = "GasEstimationFailed" -> Some("Transaction may fail or gas limit is too low")
      [] e.kind = "NodeCommunication" -> RpcErrorSuggestion(e.rpc)
      [] e.kind = "ResourceExhausted" ->
            Some("Try reducing the request size or wait before retrying")
      [] e.kind = "OperationTimeout" ->
            Some("The operation took too long, try with simpler parameters")

\* a status_code that answers 502 for every node communication error
ServiceErrorStatusCodeBadGateway(e) ==
    CASE e.kind \in {"SimulationFailed", "GasEstimationFailed", "ExecutionFailed"} -> 200
      [] e.kind \in {"TraceFailed", "AccessListFailed"} -> 500
      [] e.kind \in {"InvalidBlockContext", "InvalidStateOverride",
                     "BundleValidationFailed"} -> 400
      [] e.kind = "NodeCommunication" -> 502
      [] e.kind = "ResourceExhausted" -> 503
      [] e.kind = "OperationTimeout" -> 504

\* ServiceError::status_code
ServiceErrorStatusCode(e) ==
    CASE e.kind \in {"SimulationFailed", "GasEstimationFailed", "ExecutionFailed"} -> 200
      [] e.kind \in {"TraceFailed", "AccessListFailed"} -> 500
      [] e.kind \in {"InvalidBlockContext", "InvalidStateOverride",
                     "BundleValidationFailed"} -> 400
      [] e.kind = "NodeCommunication" -> RpcErrorStatusCode(e.rpc)
      [] e.kind = "ResourceExhausted" -> 503
      [] e.kind = "OperationTimeout" -> 504

\* ApiError::Service(err), also From<ServiceError> for ApiError
ApiErrorFrom(err) == [kind |-> "Service", err |-> err]

\* ApiError::error_code
ApiErrorCode(e) ==
    CASE e.kind = "BadRequest" -> "BAD_REQUEST"
      [] e.kind = "Unauthorized" -> "UNAUTHORIZED"
      [] e.kind = "Forbidden" -> "FORBIDDEN"
      [] e.kind = "NotFound" -> "NOT_FOUND"
      [] e.kind = "Conflict" -> "CONFLICT"
      [] e.kind = "RateLimitExceeded" -> "RATE_LIMIT_EXCEEDED"
      [] e.kind = "Validation" -> "VALIDATION_ERROR"
      [] e.kind = "Service" -> ServiceErrorCode(e.err)
      [] e.kind = "Rpc" -> RpcErrorCode(e.err)
      [] e.kind = "Cache" -> "CACHE_ERROR"
      [] e.kind = "Provider" -> "PROVIDER_ERROR"
      [] e.kind = "Conversion" -> "CONVERSION_ERROR"
      [] e.kind = "Internal" -> "INTERNAL_ERROR"
      [] e.kind = "ServiceUnavailable" -> "SERVICE_UNAVAILABLE"

\* ApiError::suggestion
ApiErrorSuggestion(e) ==
    CASE e.kind = "BadRequest" -> Some("Please check your request parameters")
      [] e.kind = "Unauthorized" -> Some("Please provide valid authentication credentials")
      [] e.kind = "Forbidden" -> Some("Please check your permissions")
      [] e.kind = "NotFound" -> Some("Please verify the resource identifier")
      [] e.kind = "RateLimitExceeded" -> Some("Please wait before making another request")
      [] e.kind = "Validation" ->
            Some("Please ensure all fields meet the validation requirements")
      [] e.kind = "Service" -> ServiceErrorSuggestion(e.err)
      [] e.kind = "Rpc" -> RpcErrorSuggestion(e.err)
      [] e.kind = "Cache" -> Some("Cache operation failed, please try again")
      [] e.kind = "Provider" ->
            Some("Provider communication error, please check node connectivity")
      [] e.kind = "Conversion" -> Some("Data format error, please check your input")
      [] e.kind = "ServiceUnavailable" -> Some("Please try again later")
      [] OTHER -> None

\* ResponseError::status_code of ApiError
ApiErrorStatusCode(e) ==
    CASE e.kind = "Unauthorized" -> 401
      [] e.kind = "Forbidden" -> 403
      [] e.kind = "NotFound" -> 404
      [] e.kind = "Conflict" -> 409
      [] e.kind = "RateLimitExceeded" -> 429
      [] e.kind = "Service" -> ServiceErrorStatusCode(e.err)
      [] e.kind = "Rpc" -> RpcErrorStatusCode(e.err)
      [] e.kind \in {"Cache", "Internal"} -> 500
      [] e.kind = "Provider" -> 502
      [] e.kind \in {"BadRequest", "Validation", "Conversion"} -> 400
      [] e.kind = "ServiceUnavailable" -> 503

\* The RpcErrors that are not the classification of a transport error: a node that is
\* syncing, a missing block or transaction, and the Transport variant.
UnclassifiedRpcErrors ==
    {[kind |-> "NodeSyncing", current |-> 1, highest |-> 2],
     [kind |-> "BlockNotFound"], [kind |-> "TransactionNotFound"]}
    \cup {[kind |-> "Transport", text |-> t] : t \in Texts}

\* ------------------------------------------------------------------ numbers as text
\* Strings that are parsed (hex quantities, block numbers) are sequences of characters.
HexChars == <<"0", "1", "2", "3", "4", "5", "6", "7", "8", "9", "a", "b", "c", "d", "e", "f">>

IsHexDigit(c) == \E i \in 1..16 : HexChars[i] = c

HexVal(c) == (CHOOSE i \in 1..16 : HexChars[i] = c) - 1

IsDecDigit(c) == \E i \in 1..10 : HexChars[i] = c

\* u64::MAX
U64Max == 2 ^ U64Bits - 1

RECURSIVE DigitsValue(_, _)
DigitsValue(s, radix) ==
    IF s = <<>> THEN 0
    ELSE DigitsValue(SubSeq(s, 1, Len(s) - 1), radix) * radix + HexVal(s[Len(s)])

\* u64::from_str_radix(s, 16)
FromStrRadix16(s) ==
    IF s # <<>> /\ \A i \in 1..Len(s) : IsHexDigit(s[i])
    THEN IF DigitsValue(s, 16) <= U64Max THEN Some(DigitsValue(s, 16)) ELSE None
    ELSE None

\* str::parse::<u64>()
ParseDecimal(s) ==
    IF s # <<>> /\ \A i \in 1..Len(s) : IsDecDigit(s[i])
    THEN IF DigitsValue(s, 10) <= U64Max THEN Some(DigitsValue(s, 10)) ELSE None
    ELSE None

StartsWith0x(s) == Len(s) >= 2 /\ s[1] = "0" /\ s[2] \in {"x", "X"}

\* str::trim_start_matches("0x")
RECURSIVE TrimStart0x(_)
TrimStart0x(s) ==
    IF Len(s) >= 2 /\ s[1] = "0" /\ s[2] = "x" THEN TrimStart0x(SubSeq(s, 3, Len(s))) ELSE s

RECURSIVE HexDigitsOf(_)
HexDigitsOf(n) ==
    IF n < 16 THEN <<HexChars[n + 1]>> ELSE HexDigitsOf(n \div 16) \o <<HexChars[(n % 16) + 1]>>

\* format!("0x{:x}", n)
FormatHex(n) == <<"0", "x">> \o HexDigitsOf(n)

\* utils::validation::parse_block_number
parse_block_number(block_number) ==
    IF StartsWith0x(block_number)
    THEN FromStrRadix16(SubSeq(block_number, 3, Len(block_number)))
    ELSE ParseDecimal(block_number)

\* ------------------------------------------------------------------ simulation requests
BlockTags == {"Latest", "Earliest", "Safe", "Finalized"}

\* blockNumber as the request carries it: a hex quantity, or text that is no number
BlockNumberInputs == {<<"0", "x", "1", "2">>, <<"l", "a", "t", "e", "s", "t">>}

\* a call whose fields all convert, and one whose gas is a hex quantity (a uint256, as
\* validation has it) too large for a u64
GoodCall == [gas |-> Some(<<"0", "x", "5", "2", "0", "8">>)]

BadCall == [gas |-> Some(<<"0", "x", "f", "f", "f", "f", "f", "f">>)]

CallInputs == {GoodCall, BadCall}

\* options.state_overrides: absent, convertible, or with an address that does not parse
OverrideInputs == {None, Some("valid"), Some("invalid")}

SimulationRequests ==
    [calls : SeqsUpTo(CallInputs, MaxCalls),
     block_number : {None} \cup {Some(b) : b \in BlockNumberInputs},
     block_tag : {None} \cup {Some(t) : t \in BlockTags},
     state_overrides : OverrideInputs]

\* SimulationRequest::call_count
call_count(request) == Len(request.calls)

\* impl TryFrom<TransactionCall> for AlloyTransactionRequest
ConvertCall(call) ==
    IF IsSome(call.gas)
    THEN LET gas == FromStrRadix16(TrimStart0x(call.gas.val))
         IN  IF IsSome(gas) THEN [tag |-> "Ok", val |-> [gas |-> gas]]
             ELSE [tag |-> "Err"]
    ELSE [tag |-> "Ok", val |-> [gas |-> None]]

\* impl TryFrom<SimulationRequest> for SimulatePayload
TryIntoPayload(request) ==
    IF \E i \in 1..Len(request.calls) : ConvertCall(request.calls[i]).tag = "Err"
    THEN [tag |-> "Err"]
    ELSE IF request.state_overrides = Some("invalid") THEN [tag |-> "Err"]
    ELSE [tag |-> "Ok",
          val |-> [calls |-> [i \in 1..Len(request.calls) |-> ConvertCall(request.calls[i]).val],
                   state_overrides |-> request.state_overrides]]

\* impl BlockContextProvider for SimulationParams :: block_number
ParamsBlockNumber(request) ==
    IF IsSome(request.block_number) THEN parse_block_number(request.block_number.val)
    ELSE None

\* HyperEvmService::determine_block_context
determine_block_context(request) ==
    LET bn == ParamsBlockNumber(request)
        bt == request.block_tag
    IN  CASE IsSome(bn) /\ ~IsSome(bt) -> [tag |-> "Ok", val |-> [kind |-> "Number", number |-> bn.val]]
          [] ~IsSome(bn) /\ IsSome(bt) -> [tag |-> "Ok", val |-> [kind |-> "Tag", block_tag |-> bt.val]]
          [] ~IsSome(bn) /\ ~IsSome(bt) -> [tag |-> "Ok", val |-> [kind |-> "Tag", block_tag |-> "Latest"]]
          [] OTHER -> [tag |-> "Err",
                       err |-> [kind |-> "InvalidBlockContext",
                                reason |-> <<"Cannot specify both block_number and block_tag">>]]

\* ------------------------------------------------------------------ remote simulate results
\* gas a simulated call may report: nothing, a transfer's, the largest u64
GasValues == {0, 21000, U64Max}

\* SimCallResult of eth_simulateV1: a successful call, or a reverted one with its error
SimCallResults ==
    {[status |-> TRUE, gas_used |-> g, error |-> None] : g \in GasValues}
    \cup {[status |-> FALSE, gas_used |-> 21000,
           error |-> Some([code |-> -3200,
                           message |-> <<"execution reverted: ", "node error">>])]}

\* SimulatedBlock: header number, header gas used, and the per-call results
SimulatedBlocks ==
    [number : {18}, gas_used : {21000}, calls : SeqsUpTo(SimCallResults, MaxCalls)]

EmptyBlock == [number |-> 19, gas_used |-> 0, calls |-> <<>>]

\* What the remote answers to one eth_simulateV1 call: a transport error, or a list of
\* blocks (none, one, or one followed by a further block).
SimulateOutcomes ==
    {[tag |-> "Err", err |-> e] : e \in TransportErrors}
    \cup {[tag |-> "Ok", blocks |-> <<>>]}
    \cup {[tag |-> "Ok", blocks |-> <<b>>] : b \in SimulatedBlocks}
    \cup {[tag |-> "Ok", blocks |-> <<b, EmptyBlock>>] : b \in SimulatedBlocks}

\* handlers::simulation::conversion::extract_revert_reason
extract_revert_reason(message) ==
    IF \E i \in 1..Len(message) : message[i] = "execution reverted: "
    THEN LET start == CHOOSE i \in 1..Len(message) :
                          /\ message[i] = "execution reverted: "
                          /\ \A j \in 1..(i - 1) : message[j] # "execution reverted: "
         IN  SubSeq(message, start + 1, Len(message))
    ELSE IF \E i \in 1..Len(message) : message[i] = "revert "
    THEN LET start == CHOOSE i \in 1..Len(message) :
                          /\ message[i] = "revert "
                          /\ \A j \in 1..(i - 1) : message[j] # "revert "
         IN  SubSeq(message, start + 1, Len(message))
    ELSE IF Contains(message, "out of gas") THEN <<"Out of gas">>
    ELSE IF Contains(message, "insufficient funds") THEN <<"Insufficient funds">>
    ELSE message

\* impl From<(usize, SimCallResult)> for CallResult
CallResultFrom(index, alloy_result) ==
    [call_index |-> index,
     status |-> IF alloy_result.status THEN "Success" ELSE "Reverted",
     return_data |-> <<"0", "x">>,
     gas_used |-> FormatHex(alloy_result.gas_used),
     logs |-> <<>>,
     error |-> IF IsSome(alloy_result.error)
               THEN Some([reason |-> extract_revert_reason(alloy_result.error.val.message),
                          error_type |-> CASE alloy_result.error.val.code = -3200 ->
                                                  "execution-reverted"
                                           [] alloy_result.error.val.code = -32015 ->
                                                  "vm-execution-error"
                                           [] OTHER -> "unknown-error",
                          message |-> Some(alloy_result.error.val.message),
                          contract_address |-> None])
               ELSE None]

RECURSIVE SumSeq(_)
SumSeq(s) == IF s = <<>> THEN 0 ELSE s[1] + SumSeq(Tail(s))

\* simulate_transaction, the remote call failed: the reason put into every call outcome
SanitizedReason(rpc_error) ==
    CASE rpc_error.kind = "Timeout" -> <<TimeoutAdvice>>
      [] rpc_error.kind = "ConnectionFailed" -> <<ConnFailedAdvice>>
      [] rpc_error.kind = "ExecutionReverted" -> rpc_error.reason
      [] OTHER -> RpcErrorToString(rpc_error)

\* simulate_transaction, the remote call failed: one failed CallResult per requested call
FailedCallResults(n, call_error) ==
    [index \in 1..n |->
        [call_index |-> index - 1,
         status |-> "Reverted",
         return_data |-> <<"0", "x">>,
         gas_used |-> <<"0", "x", "0">>,
         logs |-> <<>>,
         error |-> Some(call_error)]]

\* a simulate_transaction that propagates the remote failure to its caller
RemoteFailurePropagated(request, simulation_id, e) ==
    [tag |-> "Err", err |-> [kind |-> "NodeCommunication", rpc |-> RpcErrorFrom(e)]]

\* simulate_transaction from the remote call's Err arm to its return
RemoteFailureResult(request, simulation_id, e) ==
    LET rpc_error == RpcErrorFrom(e)
        sanitized_reason == SanitizedReason(rpc_error)
        call_error == [reason |-> sanitized_reason,
                       error_type |-> ErrorTypeOf(RpcErrorCode(rpc_error)),
                       message |-> Some(sanitized_reason),
                       contract_address |-> None]
    IN  [tag |-> "Ok",
         val |-> [simulation_id |-> simulation_id,
                  status |-> "Failed",
                  block_number |-> <<"0", "x", "0">>,
                  calls |-> FailedCallResults(call_count(request), call_error),
                  gas_used |-> <<"0", "x", "0">>,
                  block_gas_used |-> <<"0", "x", "0">>,
                  asset_changes |-> None]]

\* a conversion that numbers the outcomes from 1
ConvertCallResultsFromOne(simulated_block) ==
    [i \in 1..Len(simulated_block.calls) |-> CallResultFrom(i, simulated_block.calls[i])]

\* simulate_transaction: the block's call results converted by index
\* (iter().enumerate().map(CallResult::from).collect())
ConvertCallResults(simulated_block) ==
    [i \in 1..Len(simulated_block.calls) |-> CallResultFrom(i - 1, simulated_block.calls[i])]

\* simulate_transaction: the overall status of a successful remote simulation
OverallStatus(call_results) ==
    IF \A i \in 1..Len(call_results) : call_results[i].status = "Success"
    THEN "Success" ELSE "Failed"

\* simulate_transaction: the gas each outcome contributes to the total
\* (from_str_radix(gas_used.trim_start_matches("0x"), 16).unwrap_or(0))
ParsedGas(call_results) ==
    [i \in 1..Len(call_results) |->
        LET g == FromStrRadix16(TrimStart0x(call_results[i].gas_used))
        IN  IF IsSome(g) THEN g.val ELSE 0]

\* Iterator::sum::<u64>(): the sum where it fits; past u64::MAX a panic in a build with
\* overflow checks and the wrapped sum in one without
SumU64(values, overflow_checks) ==
    IF SumSeq(values) <= U64Max THEN [tag |-> "Ok", val |-> SumSeq(values)]
    ELSE IF overflow_checks THEN [tag |-> "Panic"]
    ELSE [tag |-> "Ok", val |-> SumSeq(values) % (U64Max + 1)]

\* simulate_transaction from the remote call's Ok arm to its return
RemoteSuccessResult(simulation_id, simulated_blocks, overflow_checks) ==
    IF simulated_blocks = <<>>
    THEN [tag |-> "Err",
          err |-> [kind |-> "SimulationFailed",
                   reason |-> <<"No simulation results returned">>]]
    ELSE LET simulated_block == simulated_blocks[1]
             call_results == ConvertCallResults(simulated_block)
             status == OverallStatus(call_results)
             total_gas_used == SumU64(ParsedGas(call_results), overflow_checks)
         IN  IF total_gas_used.tag = "Panic" THEN [tag |-> "Panic"]
             ELSE [tag |-> "Ok",
                   val |-> [simulation_id |-> simulation_id,
                            status |-> status,
                            block_number |-> FormatHex(simulated_block.number),
                            calls |-> call_results,
                            gas_used |-> FormatHex(total_gas_used.val),
                            block_gas_used |-> FormatHex(simulated_block.gas_used),
                            asset_changes |-> None]]

\* a simulate_transaction that falls back to latest when the block context is refused
SimulatePrepareOnLatest(request) ==
    LET payload == TryIntoPayload(request)
        context == determine_block_context(request)
    IN  IF payload.tag = "Err"
        THEN [tag |-> "Err",
              err |-> [kind |-> "SimulationFailed",
                       reason |-> <<"Request conversion failed: ", "invalid call">>]]
        ELSE [tag |-> "Call", payload |-> payload.val,
              block |-> IF context.tag = "Err" THEN [kind |-> "Tag", block_tag |-> "Latest"]
                        ELSE context.val]

\* simulate_transaction up to the remote call: the early return (Err), or the remote
\* call to issue
SimulatePrepare(request) ==
    LET payload == TryIntoPayload(request)
        context == determine_block_context(request)
    IN  IF payload.tag = "Err"
        THEN [tag |-> "Err",
              err |-> [kind |-> "SimulationFailed",
                       reason |-> <<"Request conversion failed: ", "invalid call">>]]
        ELSE IF context.tag = "Err" THEN context
        ELSE [tag |-> "Call", payload |-> payload.val, block |-> context.val]

\* simulate_transaction from the remote call's completion to its return
SimulateFinish(request, simulation_id, outcome, overflow_checks) ==
    IF outcome.tag = "Err"
    THEN RemoteFailureResult(request, simulation_id, outcome.err)
    ELSE RemoteSuccessResult(simulation_id, outcome.blocks, overflow_checks)

\* ------------------------------------------------------------------ simulate_batch helpers
\* a batch item that reports the text of the error its simulate_transaction returned
BatchItemOutputWithErrorText(result, simulation_id) ==
    IF result.tag = "Ok"
    THEN [result.val EXCEPT !.simulation_id = simulation_id]
    ELSE [simulation_id |-> simulation_id,
          status |-> "Failed",
          block_number |-> <<"0", "x", "0">>,
          calls |-> <<[call_index |-> 0,
                       status |-> "Reverted",
                       return_data |-> <<"0", "x">>,
                       gas_used |-> <<"0", "x", "0">>,
                       logs |-> <<>>,
                       error |-> Some([reason |-> result.err.reason,
                                       error_type |-> "simulation-error",
                                       message |-> Some(result.err.reason),
                                       contract_address |-> None])]>>,
          gas_used |-> <<"0", "x", "0">>,
          block_gas_used |-> <<"0", "x", "0">>,
          asset_changes |-> None]

\* simulate_batch: the value one batch item's future resolves to
BatchItemOutput(result, simulation_id) ==
    IF result.tag = "Ok"
    THEN [result.val EXCEPT !.simulation_id = simulation_id]
    ELSE LET sanitized_reason == <<"Simulation service error occurred">>
         IN  [simulation_id |-> simulation_id,
              status |-> "Failed",
              block_number |-> <<"0", "x", "0">>,
              calls |-> <<[call_index |-> 0,
                           status |-> "Reverted",
                           return_data |-> <<"0", "x">>,
                           gas_used |-> <<"0", "x", "0">>,
                           logs |-> <<>>,
                           error |-> Some([reason |-> sanitized_reason,
                                           error_type |-> "simulation-error",
                                           message |-> Some(sanitized_reason),
                                           contract_address |-> None])]>>,
              gas_used |-> <<"0", "x", "0">>,
              block_gas_used |-> <<"0", "x", "0">>,
              asset_changes |-> None]

\* the same outputs in the order in which the futures completed
JoinInCompletionOrder(outputs, order) == [k \in 1..Len(order) |-> outputs[order[k]]]

\* futures::future::join_all: the futures' outputs in the order of the futures,
\* whatever the order in which they completed
JoinAll(outputs, order) == outputs

\* a batch that gives up on the first item that returned Err (try_join_all)
BatchResultFailFast(results, ids, order) ==
    IF \E i \in 1..Len(results) : results[i].tag = "Err"
    THEN [tag |-> "Err", err |-> (results[CHOOSE i \in 1..Len(results) : results[i].tag = "Err"]).err]
    ELSE [tag |-> "Ok",
          val |-> JoinAll([i \in 1..Len(results) |-> BatchItemOutput(results[i], ids[i])], order)]

\* simulate_batch from the loop over the requests to its return: every item's future
\* maps Ok and Err alike to a SimulationResult, and the batch returns them all
BatchResult(results, ids, order) ==
    [tag |-> "Ok",
     val |-> JoinAll([i \in 1..Len(results) |-> BatchItemOutput(results[i], ids[i])], order)]

\* ------------------------------------------------------------------ tracer sets
CallTracerConfigs == [only_top_call : BOOLEAN, with_logs : BOOLEAN]

PrestateTracerConfigs == [diff_mode : BOOLEAN, disable_code : BOOLEAN, disable_storage : BOOLEAN]

StructLoggerConfigs ==
    [disable_memory : BOOLEAN, disable_stack : BOOLEAN, disable_storage : BOOLEAN,
     disable_return_data : BOOLEAN, clean_struct_logs : BOOLEAN]

\* handlers::trace::dto::Tracers, every value of it
TracerSets ==
    [four_byte_tracer : BOOLEAN,
     call_tracer : {None} \cup {Some(c) : c \in CallTracerConfigs},
     prestate_tracer : {None} \cup {Some(c) : c \in PrestateTracerConfigs},
     struct_logger : {None} \cup {Some(c) : c \in StructLoggerConfigs}]

\* a count that takes the struct logger for a tracer like the others
count_with_struct_logger(tracers) ==
    (IF tracers.four_byte_tracer THEN 1 ELSE 0)
    + (IF IsSome(tracers.call_tracer) THEN 1 ELSE 0)
    + (IF IsSome(tracers.prestate_tracer) THEN 1 ELSE 0)
    + (IF IsSome(tracers.struct_logger) THEN 1 ELSE 0)

\* Tracers::count_active_tracers
count_active_tracers(tracers) ==
    (IF tracers.four_byte_tracer THEN 1 ELSE 0)
    + (IF IsSome(tracers.call_tracer) THEN 1 ELSE 0)
    + (IF IsSome(tracers.prestate_tracer) THEN 1 ELSE 0)

\* Tracers::is_mux
is_mux(tracers) == count_active_tracers(tracers) >= 2

\* ------------------------------------------------------------------ geth tracing options
\* GethDefaultTracingOptions::default()
DefaultTracingOptions ==
    [disable_memory |-> None, disable_stack |-> None, disable_storage |-> None,
     disable_return_data |-> None, enable_return_data |-> None, enable_memory |-> None,
     debug |-> None, limit |-> None]

\* impl From<&StructLoggerConfig> for GethDefaultTracingOptions
StructLogOptionsFrom(config) ==
    [disable_memory |-> Some(config.disable_memory),
     disable_stack |-> Some(config.disable_stack),
     disable_storage |-> Some(config.disable_storage),
     disable_return_data |-> Some(config.disable_return_data),
     enable_return_data |-> Some(~config.disable_return_data),
     enable_memory |-> Some(~config.disable_memory),
     debug |-> None, limit |-> None]

\* GethDebugTracerConfig::default()
NullTracerConfig == [kind |-> "Null"]

\* impl From<&CallTracerConfig> for CallConfig, as a GethDebugTracerConfig
CallTracerConfigFrom(config) ==
    [kind |-> "CallConfig",
     only_top_call |-> Some(config.only_top_call), with_log |-> Some(config.with_logs)]

\* impl From<&PrestateTracerConfig> for PreStateConfig, as a GethDebugTracerConfig
PrestateTracerConfigFrom(config) ==
    [kind |-> "PreStateConfig",
     diff_mode |-> Some(config.diff_mode), disable_code |-> Some(config.disable_code),
     disable_storage |-> Some(config.disable_storage)]

\* a mux set that leaves the prestate tracer out
MuxConfigWithoutPrestate(tracers) ==
    (IF tracers.four_byte_tracer THEN {<<"FourByteTracer", None>>} ELSE {})
    \cup (IF IsSome(tracers.call_tracer)
          THEN {<<"CallTracer", Some(CallTracerConfigFrom(tracers.call_tracer.val))>>}
          ELSE {})

\* impl From<&Tracers> for MuxConfig: the map, as its set of (tracer, config) entries
MuxConfigFrom(tracers) ==
    (IF tracers.four_byte_tracer THEN {<<"FourByteTracer", None>>} ELSE {})
    \cup (IF IsSome(tracers.call_tracer)
          THEN {<<"CallTracer", Some(CallTracerConfigFrom(tracers.call_tracer.val))>>}
          ELSE {})
    \cup (IF IsSome(tracers.prestate_tracer)
          THEN {<<"PreStateTracer",
                  Some(PrestateTracerConfigFrom(tracers.prestate_tracer.val))>>}
          ELSE {})

\* GethDebugTracingOptions::default()
DefaultGethOptions ==
    [config |-> DefaultTracingOptions, tracer |-> None, tracer_config |-> NullTracerConfig,
     timeout |-> None]

\* struct-logger options that also select the call tracer
StructLoggerOptionsWithTracer(struct_config) ==
    [config |-> StructLogOptionsFrom(struct_config), tracer |-> Some("CallTracer"),
     tracer_config |-> NullTracerConfig, timeout |-> None]

\* from_config: the options of a struct-logger call (no tracer selector: the default
\* opcode logger, with the request's struct-log settings)
StructLoggerOptions(struct_config) ==
    [config |-> StructLogOptionsFrom(struct_config), tracer |-> None,
     tracer_config |-> NullTracerConfig, timeout |-> None]

\* impl From<&TraceConfig> for GethDebugTracingOptions
GethOptionsFrom(tracers) ==
    LET active_count == count_active_tracers(tracers)
    IN  CASE active_count = 0 ->
                IF IsSome(tracers.struct_logger)
                THEN [config |-> StructLogOptionsFrom(tracers.struct_logger.val),
                      tracer |-> None, tracer_config |-> NullTracerConfig, timeout |-> None]
                ELSE DefaultGethOptions
          [] active_count = 1 ->
                IF tracers.four_byte_tracer
                THEN [config |-> DefaultTracingOptions, tracer |-> Some("FourByteTracer"),
                      tracer_config |-> NullTracerConfig, timeout |-> None]
                ELSE IF IsSome(tracers.call_tracer)
                THEN [config |-> DefaultTracingOptions, tracer |-> Some("CallTracer"),
                      tracer_config |-> CallTracerConfigFrom(tracers.call_tracer.val),
                      timeout |-> None]
                ELSE IF IsSome(tracers.prestate_tracer)
                THEN [config |-> DefaultTracingOptions, tracer |-> Some("PreStateTracer"),
                      tracer_config |-> PrestateTracerConfigFrom(tracers.prestate_tracer.val),
                      timeout |-> None]
                ELSE DefaultGethOptions
          [] OTHER ->
                [config |-> DefaultTracingOptions, tracer |-> Some("MuxTracer"),
                 tracer_config |-> [kind |-> "MuxConfig", mux |-> MuxConfigFrom(tracers)],
                 timeout |-> None]

\* GethDebugTracingOptions::call_tracer(CallConfig::default())
DefaultCallTracerOptions ==
    [config |-> DefaultTracingOptions, tracer |-> Some("CallTracer"),
     tracer_config |-> [kind |-> "CallConfig", only_top_call |-> None, with_log |-> None],
     timeout |-> None]

\* a decision that goes Hybrid only from two active tracers on
StrategyVariantFromTwo(active_count, has_struct_logger) ==
    CASE active_count = 0 /\ has_struct_logger -> "StructLoggerOnly"
      [] active_count > 0 /\ ~has_struct_logger -> "TracersOnly"
      [] active_count > 1 /\ has_struct_logger -> "Hybrid"
      [] OTHER -> "Fallback"

\* TracingStrategy::from_config: the arm its match takes
StrategyVariant(active_count, has_struct_logger) ==
    CASE active_count = 0 /\ has_struct_logger -> "StructLoggerOnly"
      [] active_count > 0 /\ ~has_struct_logger -> "TracersOnly"
      [] active_count > 0 /\ has_struct_logger -> "Hybrid"
      [] OTHER -> "Fallback"

\* TracingStrategy::from_config
from_config(tracers) ==
    LET active_count == count_active_tracers(tracers)
        has_struct_logger == IsSome(tracers.struct_logger)
        arm == StrategyVariant(active_count, has_struct_logger)
    IN  CASE arm = "StructLoggerOnly" ->
                [kind |-> "StructLoggerOnly",
                 options |-> StructLoggerOptions(tracers.struct_logger.val)]
          [] arm = "TracersOnly" ->
                [kind |-> "TracersOnly", options |-> GethOptionsFrom(tracers)]
          [] arm = "Hybrid" ->
                [kind |-> "Hybrid",
                 tracers_options |->
                    GethOptionsFrom([tracers EXCEPT !.struct_logger = None]),
                 struct_logger_options |-> StructLoggerOptions(tracers.struct_logger.val)]
          [] OTHER ->
                [kind |-> "TracersOnly", options |-> DefaultCallTracerOptions]

\* ------------------------------------------------------------------ trace requests
TxHashes == {"0xaa", "0xbb"}

\* block as a trace request carries it: a hex quantity, or text that names no block
TraceBlockInputs == {<<"0", "x", "1", "2">>, <<"b", "o", "g", "u", "s">>}

\* TraceCallRequest; tracer_config is held apart, as the strategy is built from it
TraceCallRequests ==
    [call : CallInputs, block : TraceBlockInputs,
     state_overrides : OverrideInputs, block_overrides : OverrideInputs]

\* types::transaction::Bundle
BundleInputs ==
    {[transactions |-> <<GoodCall>>, block_overrides |-> None],
     [transactions |-> <<GoodCall, GoodCall>>, block_overrides |-> Some("valid")],
     [transactions |-> <<GoodCall>>, block_overrides |-> Some("invalid")],
     [transactions |-> <<BadCall>>, block_overrides |-> None]}

\* types::trace::TxIndex
TxIndexes == {[tag |-> "End"], [tag |-> "Index", index |-> 0]}

\* types::trace::StateContext
StateContexts == [block : TraceBlockInputs, tx_index : TxIndexes]

\* TraceCallManyRequest
TraceCallManyRequests ==
    [bundles : SeqsUpTo(BundleInputs, MaxBundles), state_context : StateContexts]

\* BlockId::from_str(..).unwrap_or_default(): a tag, a hex or decimal number, else the
\* default block id, latest
BlockIdFromStr(block) ==
    IF block = <<"l", "a", "t", "e", "s", "t">> THEN [tag |-> "Latest"]
    ELSE LET number == IF StartsWith0x(block)
                       THEN FromStrRadix16(SubSeq(block, 3, Len(block)))
                       ELSE ParseDecimal(block)
         IN  IF IsSome(number) THEN [tag |-> "Number", number |-> number.val]
             ELSE [tag |-> "Latest"]

\* convert_block_overrides / ConversionService::state_overrides_to_alloy, followed by
\* .ok(): the converted overrides, or nothing when the conversion fails
ConvertOverridesOk(overrides) ==
    IF overrides = "invalid" THEN None ELSE Some([alloy |-> overrides])

\* Option::and_then over that conversion
AndThenConvert(overrides) ==
    IF IsSome(overrides) THEN ConvertOverridesOk(overrides.val) ELSE None

\* impl From<Bundle> for AlloyBundle; "Panic" where its unwrap() meets a failed call
AlloyBundleFrom(bundle) ==
    IF \E i \in 1..Len(bundle.transactions) : ConvertCall(bundle.transactions[i]).tag = "Err"
    THEN [tag |-> "Panic"]
    ELSE [tag |-> "Ok",
          val |-> [transactions |->
                       [i \in 1..Len(bundle.transactions) |->
                           ConvertCall(bundle.transactions[i]).val],
                   block_override |->
                       ConvertOverridesOk(IF IsSome(bundle.block_overrides)
                                          THEN bundle.block_overrides.val
                                          ELSE "default")]]

\* impl From<TxIndex> for AlloyTransactionIndex
AlloyTxIndexFrom(tx_index) ==
    IF tx_index.tag = "End" THEN [tag |-> "All"]
    ELSE [tag |-> "Index", index |-> tx_index.index]

\* impl From<StateContext> for AlloyStateContext
AlloyStateContextFrom(state_context) ==
    [block_number |-> Some(BlockIdFromStr(state_context.block)),
     transaction_index |-> Some(AlloyTxIndexFrom(state_context.tx_index))]

\* TracingStrategy::create_call_options
create_call_options(base_options, state_overrides, block_overrides) ==
    [tracing_options |-> base_options,
     state_overrides |-> IF IsSome(state_overrides) THEN Some(state_overrides.val) ELSE None,
     block_overrides |-> IF IsSome(block_overrides) THEN Some(block_overrides.val) ELSE None]

\* the options a strategy issues calls with, in the order it builds the futures
StrategyOptions(strategy) ==
    IF strategy.kind = "Hybrid"
    THEN <<strategy.tracers_options, strategy.struct_logger_options>>
    ELSE <<strategy.options>>

\* execute: the trace_fn calls it makes
ExecuteCalls(strategy, tx_hash) ==
    LET options == StrategyOptions(strategy)
    IN  [k \in 1..Len(options) |->
            [method |-> "debug_traceTransaction", tx_hash |-> tx_hash,
             options |-> options[k]]]

\* execute_call: the trace_fn calls it makes; "Panic" where its unwrap() meets a call
\* that does not convert
ExecuteCallCalls(strategy, call_request) ==
    LET block_overrides == AndThenConvert(call_request.block_overrides)
        state_overrides == AndThenConvert(call_request.state_overrides)
        tx_request == ConvertCall(call_request.call)
        block_id == BlockIdFromStr(call_request.block)
        options == StrategyOptions(strategy)
    IN  IF tx_request.tag = "Err" THEN [tag |-> "Panic"]
        ELSE [tag |-> "Ok",
              val |-> [k \in 1..Len(options) |->
                          [method |-> "debug_traceCall", tx_request |-> tx_request.val,
                           block_id |-> block_id,
                           options |-> create_call_options(options[k], state_overrides,
                                                           block_overrides)]]]

\* execute_call_many: the trace_fn calls it makes; "Panic" where a bundle's conversion
\* panics
ExecuteCallManyCalls(strategy, call_request) ==
    LET bundles == call_request.bundles
        alloy_state_context == AlloyStateContextFrom(call_request.state_context)
        options == StrategyOptions(strategy)
    IN  IF \E i \in 1..Len(bundles) : AlloyBundleFrom(bundles[i]).tag = "Panic"
        THEN [tag |-> "Panic"]
        ELSE [tag |-> "Ok",
              val |-> [k \in 1..Len(options) |->
                          [method |-> "debug_traceCallMany",
                           bundles |-> [i \in 1..Len(bundles) |->
                                           AlloyBundleFrom(bundles[i]).val],
                           state_context |-> alloy_state_context,
                           options |-> create_call_options(options[k], None, None)]]]

\* ------------------------------------------------------------------ trace results
GethTraces == {"trace A", "trace B"}

\* what debug_traceCallMany answers: a list of traces
GethTraceLists == {<<>>, <<"trace A">>, <<"trace B">>, <<"trace A", "trace B">>}

TraceErrors == {"execution timeout", "transaction not found"}

Pending == [tag |-> "Pending"]

\* what one trace_fn future resolves to
TraceOutcomes(op) ==
    {[tag |-> "Err", err |-> e] : e \in TraceErrors}
    \cup {[tag |-> "Ok", val |-> t] :
            t \in IF op = "execute_call_many" THEN GethTraceLists ELSE GethTraces}

\* a join that puts the tracers trace in the place of a failed struct-logger trace
TryJoinLenient(futures) ==
    IF futures[1].tag = "Err" THEN {[tag |-> "Err", err |-> futures[1].err]}
    ELSE IF futures[1].tag = "Ok" /\ futures[2].tag # "Pending"
    THEN {[tag |-> "Ok",
           val |-> [tag |-> "Dual", tracers_trace |-> futures[1].val,
                    struct_logger_trace |-> IF futures[2].tag = "Ok" THEN futures[2].val
                                            ELSE futures[1].val]]}
    ELSE {}

\* tokio::try_join!(tracers_fut, struct_logger_fut)? and the Dual built from it: the
\* values the operation may return now ({} while it stays pending). A failed future
\* ends the join at once; where both have failed by the same poll, the one polled
\* first is reported, and the poll order rotates.
TryJoin(futures) ==
    IF \E k \in 1..2 : futures[k].tag = "Err"
    THEN {[tag |-> "Err", err |-> futures[k].err] : k \in {j \in 1..2 : futures[j].tag = "Err"}}
    ELSE IF \A k \in 1..2 : futures[k].tag = "Ok"
    THEN {[tag |-> "Ok",
           val |-> [tag |-> "Dual", tracers_trace |-> futures[1].val,
                    struct_logger_trace |-> futures[2].val]]}
    ELSE {}

\* trace_fn(..).await? and the Single built from it
AwaitSingle(futures) ==
    IF futures[1].tag = "Err" THEN {[tag |-> "Err", err |-> futures[1].err]}
    ELSE IF futures[1].tag = "Ok"
    THEN {[tag |-> "Ok", val |-> [tag |-> "Single", trace |-> futures[1].val]]}
    ELSE {}

\* what execute / execute_call / execute_call_many may return given its futures
ExecuteResults(strategy, futures) ==
    IF strategy.kind = "Hybrid" THEN TryJoin(futures) ELSE AwaitSingle(futures)

\* ------------------------------------------------------------------ trace payloads
\* A four-byte identifier "SELECTOR-DATA_SIZE" as the node reports it, and identifiers
\* that lack the separator or carry a size that is no number.
FourByteIds ==
    {<<"0xa9059cbb", "-", "6", "4">>, <<"0xa9059cbb">>, <<"0xa9059cbb", "-", "x">>}

\* alloy's StructLog, as far as the conversion reads it: the refund counter and the error
StructLogInputs ==
    [refund_counter : {None, Some(1), Some(U64Max)}, error : {None, Some("out of gas")}]

\* alloy's DefaultFrame: the frames converted on their own
DefaultFrameInputs ==
    [failed : {FALSE}, gas : {21000}, return_value : {<<>>, <<"0", "1">>},
     struct_logs : SeqsUpTo(StructLogInputs, MaxLogs)]

\* the DefaultFrame a debug_trace* call answers with
TheDefaultFrame ==
    [failed |-> FALSE, gas |-> 21000, return_value |-> <<>>,
     struct_logs |-> <<[refund_counter |-> None, error |-> None],
                       [refund_counter |-> Some(1), error |-> None]>>]

\* the call types of a call frame
CallTypes == {"CALL", "STATICCALL"}

\* alloy's CallFrame: the call trees of n nodes, and the lists of call trees of m nodes
\* in all
RECURSIVE CallTreesOfSize(_), CallForestsOfSize(_)
CallTreesOfSize(n) ==
    {[typ |-> t, error |-> None, calls |-> f] :
        t \in CallTypes, f \in CallForestsOfSize(n - 1)}

CallForestsOfSize(m) ==
    IF m = 0 THEN {<<>>}
    ELSE UNION {{<<t>> \o f : t \in CallTreesOfSize(k), f \in CallForestsOfSize(m - k)} :
                   k \in 1..m}

\* the call trees converted on their own
CallFrameInputs == UNION {CallTreesOfSize(n) : n \in 1..MaxNodes}

\* the call tree a debug_trace* call answers with
TheCallFrame ==
    [typ |-> "CALL", error |-> None,
     calls |-> <<[typ |-> "STATICCALL", error |-> Some("execution reverted"),
                  calls |-> <<>>]>>]

\* an account address as the node writes it
AddressTexts == {<<"0x00000000000000000000000000000000000000aa">>}

\* the PreStateFrame a debug_trace* call answers with: the default mode, one account
ThePreStateFrame ==
    [mode |-> "Default", accounts |-> {<<"0x00000000000000000000000000000000000000aa">>}]

\* alloy's GethTrace: the frames a debug_trace* call may answer with
DefaultFrames == {[tag |-> "Default", frame |-> TheDefaultFrame]}

CallFrames == {[tag |-> "CallTracer", frame |-> TheCallFrame]}

PreStateFrames == {[tag |-> "PreStateTracer", frame |-> ThePreStateFrame]}

FourByteFrames == {[tag |-> "FourByteTracer", identifiers |-> {id}] : id \in FourByteIds}

NoopFrames == {[tag |-> "NoopTracer"]}

\* the first four-byte frame: its identifier is well formed
GoodFourByteFrame ==
    [tag |-> "FourByteTracer", identifiers |-> {<<"0xa9059cbb", "-", "6", "4">>}]

\* ------------------------------------------------------------------ untyped payloads
\* serde_json::Value: a number, a string, a boolean, an array, or an object as the set of
\* its <<key, value>> members; keys are texts
JNum(n) == [num |-> n]

JStr(s) == [str |-> s]

JBool(b) == [bool |-> b]

JArr(items) == [items |-> items]

JObj(members) == [members |-> members]

IsJNum(v) == DOMAIN v = {"num"}

IsJStr(v) == DOMAIN v = {"str"}

IsJBool(v) == DOMAIN v = {"bool"}

IsJArr(v) == DOMAIN v = {"items"}

IsJObj(v) == DOMAIN v = {"members"}

JKeys(obj) == {m[1] : m \in obj.members}

JGet(obj, key) == (CHOOSE m \in obj.members : m[1] = key)[2]

\* an object per frame shape, as the node writes them
JsFourByte == JObj({<<<<"0xa9059cbb", "-", "6", "4">>, JNum(1)>>})

JsFourByteBadId == JObj({<<<<"0xa9059cbb">>, JNum(1)>>})

JsEmptyObject == JObj({})

JsCallLeaf ==
    JObj({<<<<"from">>, JStr("0xaa")>>, <<<<"input">>, JStr("0x")>>,
          <<<<"type">>, JStr("STATICCALL")>>})

JsCall ==
    JObj({<<<<"from">>, JStr("0xaa")>>, <<<<"input">>, JStr("0x")>>,
          <<<<"type">>, JStr("CALL")>>, <<<<"calls">>, JArr(<<JsCallLeaf>>)>>})

JsPreState ==
    JObj({<<<<"0x00000000000000000000000000000000000000aa">>,
            JObj({<<<<"balance">>, JStr("0x1")>>})>>})

JsDefault ==
    JObj({<<<<"failed">>, JBool(FALSE)>>, <<<<"gas">>, JNum(21000)>>,
          <<<<"returnValue">>, JStr(<<>>)>>,
          <<<<"structLogs">>,
            JArr(<<JObj({<<<<"pc">>, JNum(0)>>}),
                   JObj({<<<<"pc">>, JNum(1)>>, <<<<"refund">>, JNum(1)>>})>>)>>})

\* objects keyed by tracer name
JsKeyedCallAndPreState ==
    JObj({<<<<"callTracer">>, JsCall>>, <<<<"prestateTracer">>, JsPreState>>})

JsKeyedFourByteAndCall ==
    JObj({<<<<"4byteTracer">>, JsFourByte>>, <<<<"callTracer">>, JsCallLeaf>>})

JsKeyedFourByteBadId == JObj({<<<<"4byteTracer">>, JsFourByteBadId>>})

JsKeyedUnknown ==
    JObj({<<<<"callTracer">>, JsPreState>>, <<<<"structLogger">>, JsDefault>>})

\* the untyped payloads converted on their own: objects, arrays of them, a string
JsValueInputs ==
    LET objects == {JsFourByte, JsFourByteBadId, JsEmptyObject, JsCallLeaf, JsCall,
                    JsPreState, JsDefault, JsKeyedCallAndPreState, JsKeyedFourByteAndCall,
                    JsKeyedFourByteBadId, JsKeyedUnknown}
    IN  objects \cup {JStr("0x")}
        \cup {JArr(items) : items \in SeqsUpTo({JsFourByte, JsCallLeaf, JsCall, JsPreState,
                                                 JsKeyedCallAndPreState}, MaxElements)}

\* GethTrace::JS: an untyped value, here a struct-log object, a call object, or a string
JsFrames == {[tag |-> "JS", value |-> v] : v \in {JsDefault, JsCall, JStr("0x")}}

\* serde_json::from_value::<FourByteFrame>: a map from text to u64, so any object whose
\* values are all numbers that fit
from_value_FourByteFrame(value) ==
    IF IsJObj(value) /\ \A m \in value.members : IsJNum(m[2]) /\ m[2].num <= U64Max
    THEN Some([tag |-> "FourByteTracer", identifiers |-> JKeys(value)])
    ELSE None

\* serde_json::from_value::<CallFrame>: an object with "from", "input" and "type", and
\* with "calls", where it has them, an array of such objects
RECURSIVE from_value_CallFrame(_)
from_value_CallFrame(value) ==
    IF /\ IsJObj(value)
       /\ {<<"from">>, <<"input">>, <<"type">>} \subseteq JKeys(value)
       /\ IsJStr(JGet(value, <<"from">>))
       /\ IsJStr(JGet(value, <<"input">>))
       /\ IsJStr(JGet(value, <<"type">>))
       /\ <<"calls">> \in JKeys(value) =>
             /\ IsJArr(JGet(value, <<"calls">>))
             /\ \A i \in 1..Len(JGet(value, <<"calls">>).items) :
                   IsSome(from_value_CallFrame(JGet(value, <<"calls">>).items[i]))
    THEN LET calls == IF <<"calls">> \in JKeys(value) THEN JGet(value, <<"calls">>).items
                      ELSE <<>>
         IN  Some([tag |-> "CallTracer",
                   frame |-> [typ |-> JGet(value, <<"type">>).str,
                              error |-> IF <<"error">> \in JKeys(value)
                                        THEN Some(JGet(value, <<"error">>).str) ELSE None,
                              calls |-> [i \in 1..Len(calls) |->
                                            from_value_CallFrame(calls[i]).val.frame]]])
    ELSE None

\* serde_json::from_value::<PreStateFrame>, an untagged choice: a map from address to
\* account state (the empty object is one), or an object of exactly "pre" and "post"
from_value_PreStateFrame(value) ==
    IF IsJObj(value) /\ \A m \in value.members : m[1] \in AddressTexts /\ IsJObj(m[2])
    THEN Some([tag |-> "PreStateTracer",
               frame |-> [mode |-> "Default", accounts |-> JKeys(value)]])
    ELSE IF /\ IsJObj(value)
            /\ JKeys(value) = {<<"pre">>, <<"post">>}
            /\ \A m \in value.members :
                  IsJObj(m[2]) /\ \A a \in m[2].members : a[1] \in AddressTexts /\ IsJObj(a[2])
    THEN Some([tag |-> "PreStateTracer",
               frame |-> [mode |-> "Diff",
                          accounts |-> JKeys(JGet(value, <<"pre">>))
                                       \cup JKeys(JGet(value, <<"post">>))]])
    ELSE None

\* serde_json::from_value::<DefaultFrame>: an object with "failed", "gas", "returnValue"
\* and "structLogs", an array of log objects
from_value_DefaultFrame(value) ==
    IF /\ IsJObj(value)
       /\ {<<"failed">>, <<"gas">>, <<"returnValue">>, <<"structLogs">>} \subseteq JKeys(value)
       /\ IsJBool(JGet(value, <<"failed">>))
       /\ IsJNum(JGet(value, <<"gas">>))
       /\ IsJStr(JGet(value, <<"returnValue">>))
       /\ IsJArr(JGet(value, <<"structLogs">>))
       /\ \A i \in 1..Len(JGet(value, <<"structLogs">>).items) :
             LET log == JGet(value, <<"structLogs">>).items[i]
             IN  IsJObj(log) /\ <<"pc">> \in JKeys(log) /\ IsJNum(JGet(log, <<"pc">>))
    THEN LET logs == JGet(value, <<"structLogs">>).items
         IN  Some([tag |-> "Default",
                   frame |-> [failed |-> JGet(value, <<"failed">>).bool,
                              gas |-> JGet(value, <<"gas">>).num,
                              return_value |-> JGet(value, <<"returnValue">>).str,
                              struct_logs |->
                                  [i \in 1..Len(logs) |->
                                      [refund_counter |->
                                           IF <<"refund">> \in JKeys(logs[i])
                                           THEN Some(JGet(logs[i], <<"refund">>).num)
                                           ELSE None,
                                       error |->
                                           IF <<"error">> \in JKeys(logs[i])
                                           THEN Some(JGet(logs[i], <<"error">>).str)
                                           ELSE None]]]])
    ELSE None

\* ------------------------------------------------------------------ tracing results
\* MuxFrame: a map from the tracer type to its trace, as a set of <<type, trace>> pairs
MuxFrames ==
    {[tag |-> "MuxTracer", entries |-> m] :
        m \in {{<<"CallTracer", [tag |-> "CallTracer", frame |-> TheCallFrame]>>,
                <<"FourByteTracer", GoodFourByteFrame>>},
               {<<"CallTracer", [tag |-> "CallTracer", frame |-> TheCallFrame]>>,
                <<"PreStateTracer", [tag |-> "PreStateTracer", frame |-> ThePreStateFrame]>>},
               {<<"CallTracer", [tag |-> "PreStateTracer", frame |-> ThePreStateFrame]>>},
               {<<"NoopTracer", [tag |-> "NoopTracer"]>>}}}

GethFrames ==
    DefaultFrames \cup CallFrames \cup PreStateFrames \cup FourByteFrames \cup NoopFrames
    \cup JsFrames \cup MuxFrames

\* TracingResult
TracingResults ==
    {[tag |-> "Single", trace |-> t] : t \in GethFrames}
    \cup {[tag |-> "Dual", tracers_trace |-> t, struct_logger_trace |-> s] :
            t \in GethFrames, s \in GethFrames}

\* TracingResult::primary_trace
primary_trace(result) ==
    IF result.tag = "Single" THEN result.trace ELSE result.tracers_trace

\* TracingResult::struct_logger_frame
struct_logger_frame(result) ==
    IF result.tag = "Single"
    THEN IF result.trace.tag = "Default" THEN Some(result.trace) ELSE None
    ELSE IF result.struct_logger_trace.tag = "Default"
         THEN Some(result.struct_logger_trace) ELSE None

\* TracingResult::extract_default_frame_from_js: the DefaultFrame that a JS trace in the
\* struct-logger position decodes to
extract_default_frame_from_js(result) ==
    LET trace == IF result.tag = "Single" THEN result.trace ELSE result.struct_logger_trace
    IN  IF trace.tag = "JS" THEN from_value_DefaultFrame(trace.value) ELSE None

\* ------------------------------------------------------------------ trace responses
\* the build panics on integer overflow (debug) or wraps (release)
VARIABLE overflowChecks

\* the refund loop of From<DefaultFrame> after the first n logs: its three counters, and
\* whether the u64 sum has passed u64::MAX
RECURSIVE RefundScan(_, _)
RefundScan(struct_logs, n) ==
    IF n = 0
    THEN [total_gas_refunded |-> 0, total_refund_counter |-> 0,
          last_gas_refunded_state |-> 0, overflowed |-> FALSE]
    ELSE LET before == RefundScan(struct_logs, n - 1)
             log == struct_logs[n]
         IN  IF IsSome(log.refund_counter) /\ before.last_gas_refunded_state = 0
             THEN [total_gas_refunded |->
                       (before.total_gas_refunded + log.refund_counter.val) % (2 ^ U64Bits),
                   total_refund_counter |-> before.total_refund_counter + 1,
                   last_gas_refunded_state |-> 1,
                   overflowed |->
                       \/ before.overflowed
                       \/ before.total_gas_refunded + log.refund_counter.val > U64Max]
             ELSE IF ~IsSome(log.refund_counter) /\ before.last_gas_refunded_state # 0
             THEN [before EXCEPT !.last_gas_refunded_state = 0]
             ELSE before

\* the first error met from the last struct log backwards
RECURSIVE LastError(_, _)
LastError(struct_logs, n) ==
    IF n = 0 THEN None
    ELSE IF IsSome(struct_logs[n].error) THEN Some(struct_logs[n].error.val)
    ELSE LastError(struct_logs, n - 1)

\* impl From<AlloyStructLog> for StructLog, on the fields kept here
StructLogFrom(log) == [error |-> log.error, refund_counter |-> log.refund_counter]

\* impl From<DefaultFrame> for StructLogResponse; "Panic" where the refund sum overflows
\* in a build that checks
StructLogResponseFrom(frame) ==
    LET struct_logs == frame.frame.struct_logs
        scan == RefundScan(struct_logs, Len(struct_logs))
    IN  IF overflowChecks /\ scan.overflowed THEN [tag |-> "Panic"]
        ELSE [tag |-> "Ok",
              val |-> [inner |-> Some([i \in 1..Len(struct_logs) |->
                                          StructLogFrom(struct_logs[i])]),
                       total_opcodes |-> Len(struct_logs),
                       error |-> LastError(struct_logs, Len(struct_logs)),
                       output |-> IF frame.frame.return_value # <<>>
                                  THEN Some(<<"0x">> \o frame.frame.return_value)
                                  ELSE None,
                       total_gas |-> frame.frame.gas,
                       total_gas_refunded |-> Some(scan.total_gas_refunded),
                       refund_counter |-> Some(scan.total_refund_counter)]]

\* a clean that also resets the opcode count
clean_with_count(struct_log) == [struct_log EXCEPT !.inner = None, !.total_opcodes = 0]

\* StructLogResponse::clean
clean(struct_log) == [struct_log EXCEPT !.inner = None]

\* TracerResponse::clean_struct_logger
clean_struct_logger(response) ==
    IF IsSome(response.struct_logger)
    THEN [response EXCEPT !.struct_logger = Some(clean(response.struct_logger.val))]
    ELSE response

\* CallFrame::from_alloy_with_stats: the converted frame, and total_calls and max_depth
\* as the call leaves them; ConvertSubCalls is its map over the sub-calls from the i-th on
RECURSIVE from_alloy_with_stats(_, _, _, _), ConvertSubCalls(_, _, _, _, _)
from_alloy_with_stats(frame, depth, total_calls, max_depth) ==
    LET subs == ConvertSubCalls(frame.calls, 1, depth + 1, total_calls + 1,
                                IF depth > max_depth THEN depth ELSE max_depth)
    IN  [call |-> [call_type |-> frame.typ, depth |-> depth,
                   reverted |-> IsSome(frame.error), error |-> frame.error,
                   calls |-> subs.calls],
         total_calls |-> subs.total_calls,
         max_depth |-> subs.max_depth]

ConvertSubCalls(calls, i, depth, total_calls, max_depth) ==
    IF i > Len(calls)
    THEN [calls |-> <<>>, total_calls |-> total_calls, max_depth |-> max_depth]
    ELSE LET first == from_alloy_with_stats(calls[i], depth, total_calls, max_depth)
             rest == ConvertSubCalls(calls, i + 1, depth, first.total_calls, first.max_depth)
         IN  [calls |-> <<first.call>> \o rest.calls,
              total_calls |-> rest.total_calls,
              max_depth |-> rest.max_depth]

\* a conversion that counts the root and its direct sub-calls only
CallTraceResponseFromTopLevel(frame) ==
    LET converted == from_alloy_with_stats(frame.frame, 0, 0, 0)
    IN  [root_call |-> converted.call,
         total_calls |-> 1 + Len(frame.frame.calls),
         max_depth |-> converted.max_depth]

\* impl From<AlloyCallFrame> for CallTraceResponse
CallTraceResponseFrom(frame) ==
    LET converted == from_alloy_with_stats(frame.frame, 0, 0, 0)
    IN  [root_call |-> converted.call,
         total_calls |-> converted.total_calls,
         max_depth |-> converted.max_depth]

\* impl From<PreStateFrame> for PrestateTraceResponse
PrestateTraceResponseFrom(frame) ==
    [mode |-> frame.frame.mode, accounts |-> frame.frame.accounts]

\* id.split_once('-'): the text before and after the first separator
SplitOnce(id) ==
    IF \E i \in 1..Len(id) : id[i] = "-"
    THEN LET at == CHOOSE i \in 1..Len(id) : id[i] = "-" /\ \A j \in 1..(i - 1) : id[j] # "-"
         IN  Some(<<SubSeq(id, 1, at - 1), SubSeq(id, at + 1, Len(id))>>)
    ELSE None

\* impl From<FourByteFrame> for FourByteResponse; "Panic" where an unwrap() meets an
\* identifier without separator or with a size that does not parse
FourByteResponseFrom(frame) ==
    IF \E id \in frame.identifiers :
          \/ ~IsSome(SplitOnce(id))
          \/ ~IsSome(ParseDecimal(SplitOnce(id).val[2]))
    THEN [tag |-> "Panic"]
    ELSE [tag |-> "Ok",
          val |-> [identifiers |->
                       {[selector |-> SplitOnce(id).val[1],
                         data_size |-> ParseDecimal(SplitOnce(id).val[2]).val] :
                            id \in frame.identifiers},
                   total_identifiers |-> Cardinality(frame.identifiers)]]

\* TracerResponse::default()
DefaultTracerResponse ==
    [receipt |-> None, call_tracer |-> None, prestate_tracer |-> None,
     struct_logger |-> None, four_byte_tracer |-> None]

\* sets four_byte_tracer from a frame; the panic of the conversion goes through
SetFourByte(response, frame) ==
    LET converted == FourByteResponseFrom(frame)
    IN  IF response.tag = "Panic" \/ converted.tag = "Panic"
        THEN [tag |-> "Panic"]
        ELSE [tag |-> "Ok",
              val |-> [response.val EXCEPT !.four_byte_tracer = Some(converted.val)]]

\* sets struct_logger from a frame; the panic of the conversion goes through
SetStructLogger(response, frame) ==
    LET converted == StructLogResponseFrom(frame)
    IN  IF response.tag = "Panic" \/ converted.tag = "Panic"
        THEN [tag |-> "Panic"]
        ELSE [tag |-> "Ok",
              val |-> [response.val EXCEPT !.struct_logger = Some(converted.val)]]

\* TracerResponse::extract_from_mux_frame: each entry whose trace is of the entry's
\* tracer type sets that tracer's field
extract_from_mux_frame(mux_frame, response) ==
    LET entry(type) ==
            IF \E e \in mux_frame.entries : e[1] = type /\ e[2].tag = type
            THEN Some((CHOOSE e \in mux_frame.entries : e[1] = type /\ e[2].tag = type)[2])
            ELSE None
        call == entry("CallTracer")
        prestate == entry("PreStateTracer")
        four_byte == entry("FourByteTracer")
        routed == [response EXCEPT
                      !.call_tracer = IF IsSome(call) THEN Some(CallTraceResponseFrom(call.val))
                                      ELSE @,
                      !.prestate_tracer = IF IsSome(prestate)
                                          THEN Some(PrestateTraceResponseFrom(prestate.val))
                                          ELSE @]
    IN  IF IsSome(four_byte) THEN SetFourByte([tag |-> "Ok", val |-> routed], four_byte.val)
        ELSE [tag |-> "Ok", val |-> routed]

\* the loop of try_extract_single_trace over the entries of an object keyed by tracer
\* name: each of the three names sets its field when its data decodes
ExtractByTracerName(value, response) ==
    LET data(name) == IF name \in JKeys(value) THEN Some(JGet(value, name)) ELSE None
        call == IF IsSome(data(<<"callTracer">>))
                THEN from_value_CallFrame(data(<<"callTracer">>).val) ELSE None
        prestate == IF IsSome(data(<<"prestateTracer">>))
                    THEN from_value_PreStateFrame(data(<<"prestateTracer">>).val) ELSE None
        four_byte == IF IsSome(data(<<"4byteTracer">>))
                     THEN from_value_FourByteFrame(data(<<"4byteTracer">>).val) ELSE None
        routed == [response EXCEPT
                      !.call_tracer = IF IsSome(call) THEN Some(CallTraceResponseFrom(call.val))
                                      ELSE @,
                      !.prestate_tracer = IF IsSome(prestate)
                                          THEN Some(PrestateTraceResponseFrom(prestate.val))
                                          ELSE @]
    IN  IF IsSome(four_byte) THEN SetFourByte([tag |-> "Ok", val |-> routed], four_byte.val)
        ELSE [tag |-> "Ok", val |-> routed]

\* TracerResponse::try_extract_single_trace: an object is decoded as a four-byte, call,
\* prestate, default frame, in this order, and read by tracer name when it is none
try_extract_single_trace(value, response) ==
    LET four_byte == from_value_FourByteFrame(value)
        call == from_value_CallFrame(value)
        prestate == from_value_PreStateFrame(value)
        default == from_value_DefaultFrame(value)
    IN  IF ~IsJObj(value) THEN [tag |-> "Ok", val |-> response]
        ELSE IF IsSome(four_byte)
        THEN SetFourByte([tag |-> "Ok", val |-> response], four_byte.val)
        ELSE IF IsSome(call)
        THEN [tag |-> "Ok",
              val |-> [response EXCEPT !.call_tracer = Some(CallTraceResponseFrom(call.val))]]
        ELSE IF IsSome(prestate)
        THEN [tag |-> "Ok",
              val |-> [response EXCEPT
                          !.prestate_tracer = Some(PrestateTraceResponseFrom(prestate.val))]]
        ELSE IF IsSome(default)
        THEN SetStructLogger([tag |-> "Ok", val |-> response], default.val)
        ELSE ExtractByTracerName(value, response)

\* TracerResponse::extract_from_js_trace: every element of an array in turn, any other
\* value on its own; a panic ends it
RECURSIVE ExtractElements(_, _, _)
ExtractElements(items, i, response) ==
    IF i > Len(items) \/ response.tag = "Panic" THEN response
    ELSE ExtractElements(items, i + 1, try_extract_single_trace(items[i], response.val))

extract_from_js_trace(json_value, response) ==
    IF IsJArr(json_value)
    THEN ExtractElements(json_value.items, 1, [tag |-> "Ok", val |-> response])
    ELSE try_extract_single_trace(json_value, response)

\* TracerResponse::extract_tracers_from_trace
extract_tracers_from_trace(trace, response) ==
    CASE trace.tag = "CallTracer" ->
            [tag |-> "Ok",
             val |-> [response EXCEPT !.call_tracer = Some(CallTraceResponseFrom(trace))]]
      [] trace.tag = "PreStateTracer" ->
            [tag |-> "Ok",
             val |-> [response EXCEPT
                         !.prestate_tracer = Some(PrestateTraceResponseFrom(trace))]]
      [] trace.tag = "FourByteTracer" -> SetFourByte([tag |-> "Ok", val |-> response], trace)
      [] trace.tag = "MuxTracer" -> extract_from_mux_frame(trace, response)
      [] trace.tag = "JS" -> extract_from_js_trace(trace.value, response)
      [] OTHER -> [tag |-> "Ok", val |-> response]

\* impl From<TracingResult> for TracerResponse; "Panic" where a conversion panics
TracerResponseFrom(result) ==
    LET struct_frame == struct_logger_frame(result)
        default_frame == extract_default_frame_from_js(result)
        response ==
            IF IsSome(struct_frame)
            THEN SetStructLogger([tag |-> "Ok", val |-> DefaultTracerResponse],
                                 struct_frame.val)
            ELSE IF IsSome(default_frame)
            THEN SetStructLogger([tag |-> "Ok", val |-> DefaultTracerResponse],
                                 default_frame.val)
            ELSE [tag |-> "Ok", val |-> DefaultTracerResponse]
    IN  IF response.tag = "Panic" THEN response
        ELSE extract_tracers_from_trace(primary_trace(result), response.val)

\* ------------------------------------------------------------------ auth middleware
\* Text of a header value or of a token, in units: the word "Bearer", a space, and one
\* other character.
AuthAlphabet == {"Bearer", " ", "t"}

\* the prefix the middleware looks for
BearerPrefix == <<"Bearer", " ">>

\* a header value with a byte that is not visible ASCII
OpaqueHeader == <<"t", "\\xff">>

\* the tokens a middleware is built with: the empty one disables it
ApiTokens == SeqsUpTo(AuthAlphabet, MaxToken)

\* the requests: with or without an Authorization header, with or without
\* x-forwarded-for: 127.0.0.1
AuthRequests ==
    [authorization : {None} \cup {Some(h) : h \in SeqsUpTo(AuthAlphabet, MaxHeader)
                                                  \cup {OpaqueHeader}},
     x_forwarded_for : {None, Some("127.0.0.1")}]

\* HeaderValue::to_str: the text of a value of visible ASCII only
to_str(value) ==
    IF \E i \in 1..Len(value) : value[i] = "\\xff" THEN None ELSE Some(value)

\* str::starts_with
starts_with(text, prefix) ==
    Len(text) >= Len(prefix) /\ SubSeq(text, 1, Len(prefix)) = prefix

\* str::trim_start_matches: the prefix is removed as often as the text starts with it
RECURSIVE trim_start_matches(_, _)
trim_start_matches(text, prefix) ==
    IF prefix # <<>> /\ starts_with(text, prefix)
    THEN trim_start_matches(SubSeq(text, Len(prefix) + 1, Len(text)), prefix)
    ELSE text

\* str::trim: leading and trailing whitespace removed
RECURSIVE trim(_)
trim(text) ==
    IF text # <<>> /\ text[1] = " " THEN trim(Tail(text))
    ELSE IF text # <<>> /\ text[Len(text)] = " " THEN trim(SubSeq(text, 1, Len(text) - 1))
    ELSE text

\* a check that takes off the prefix once and leaves the rest as it is
is_valid_strip_prefix(api_token_text, request) ==
    LET token == IF IsSome(request.authorization) THEN to_str(request.authorization.val)
                 ELSE None
    IN  IF ~IsSome(token) THEN FALSE
        ELSE IF starts_with(token.val, BearerPrefix)
        THEN SubSeq(token.val, Len(BearerPrefix) + 1, Len(token.val)) = api_token_text
        ELSE token.val = api_token_text

\* AuthMiddleware::call: is_valid of the request's Authorization header
is_valid(api_token_text, request) ==
    LET token == IF IsSome(request.authorization) THEN to_str(request.authorization.val)
                 ELSE None
    IN  IF ~IsSome(token) THEN FALSE
        ELSE IF starts_with(token.val, BearerPrefix)
        THEN trim(trim_start_matches(token.val, BearerPrefix)) = api_token_text
        ELSE token.val = api_token_text

\* AuthMiddleware::call: "forwarded" where the inner service is called with the request,
\* "unauthorized" where ErrorUnauthorized is returned without it
AuthCall(api_token_text, request) ==
    IF api_token_text = <<>> THEN "forwarded"
    ELSE IF ~is_valid(api_token_text, request) THEN "unauthorized"
    ELSE "forwarded"

\* ------------------------------------------------------------------ state
VARIABLES
    mode,        \* "idle", "single" (simulate_transaction) or "batch" (simulate_batch)
    requests,    \* the requests of the running operation
    batchIds,    \* simulate_batch: the simulation_id drawn for each item in the loop
    simIds,      \* the simulation_id each simulate_transaction drew for itself
    itemPc,      \* per item: "awaiting" (remote call in flight) or "done"
    itemOutcome, \* per item: what the remote answered (None until it does)
    itemResult,  \* per item: what simulate_transaction returned (None until it does)
    remoteLog,   \* the remote simulate calls issued, in order
    completed,   \* the items in the order in which their futures completed
    output,      \* what the operation returned to its caller (None until it does)
    uuid         \* how many identifiers Uuid::new_v4 has handed out

simVars == <<mode, requests, batchIds, simIds, itemPc, itemOutcome, itemResult,
             remoteLog, completed, output, uuid, overflowChecks>>

VARIABLES
    tOp,         \* "none", "from_config", "execute", "execute_call" or "execute_call_many"
    tPc,         \* "idle", "joining" (calls in flight), "done" or "panicked"
    tracerSet,   \* the Tracers of the request's tracer_config
    strategy,    \* TracingStrategy::from_config of it
    tRequest,    \* what is traced: a transaction hash, a call request, a call-many request
    tIssued,     \* the trace_fn calls made, in order
    tFutures,    \* per issued call: Pending, or what it resolved to
    tResult      \* what the operation returned (None until it does)

traceVars == <<tOp, tPc, tracerSet, strategy, tRequest, tIssued, tFutures, tResult>>

VARIABLES
    sOp,           \* the service operation running under a handler ("none" when none is)
    receipt,       \* trace_transaction: None, Pending, or what the receipt fetch resolved to
    serviceResult, \* what the service operation returned (None until it does)
    handlerResult  \* what the handler returned, "Panic" if it panicked (None until then)

serviceVars == <<sOp, receipt, serviceResult, handlerResult>>

VARIABLES
    rpcError,     \* the RpcError at hand (None until one is raised)
    serviceError, \* the ServiceError it was converted into (None until it is)
    apiError      \* the ApiError that was converted into (None until it is)

errorVars == <<rpcError, serviceError, apiError>>

VARIABLES
    cOp,     \* the conversion applied last ("none" before the first)
    cInput,  \* the payload it was applied to
    cOutput  \* what it built, "Panic" if it panicked

responseVars == <<cOp, cInput, cOutput>>

VARIABLES
    api_token,   \* the token the middleware was built with
    authRequest, \* the Authorization header of the request at hand (None before one)
    authOutcome, \* "none", "forwarded" or "unauthorized"
    innerCalls   \* how many times the inner service was called

authVars == <<api_token, authRequest, authOutcome, innerCalls>>

vars == <<simVars, traceVars, serviceVars, errorVars, responseVars, authVars>>

SimInit ==
    /\ mode = "idle"
    /\ requests = <<>>
    /\ batchIds = <<>>
    /\ simIds = <<>>
    /\ itemPc = <<>>
    /\ itemOutcome = <<>>
    /\ itemResult = <<>>
    /\ remoteLog = <<>>
    /\ completed = <<>>
    /\ output = None
    /\ uuid = 0
    /\ overflowChecks \in BOOLEAN

TraceInit ==
    /\ tOp = "none"
    /\ tPc = "idle"
    /\ tracerSet = None
    /\ strategy = None
    /\ tRequest = None
    /\ tIssued = <<>>
    /\ tFutures = <<>>
    /\ tResult = None

ServiceInit ==
    /\ sOp = "none"
    /\ receipt = None
    /\ serviceResult = None
    /\ handlerResult = None

ErrorInit ==
    /\ rpcError = None
    /\ serviceError = None
    /\ apiError = None

ResponseInit ==
    /\ cOp = "none"
    /\ cInput = None
    /\ cOutput = None

AuthInit ==
    /\ api_token = None
    /\ authRequest = None
    /\ authOutcome = "none"
    /\ innerCalls = 0

Init == SimInit /\ TraceInit /\ ServiceInit /\ ErrorInit /\ ResponseInit /\ AuthInit

\* The items of reqs, in order, that satisfy P.
RECURSIVE IndicesWhere(_, _, _)
IndicesWhere(reqs, i, early) ==
    IF i > Len(reqs) THEN <<>>
    ELSE (IF (SimulatePrepare(reqs[i]).tag = "Call") = early THEN <<>> ELSE <<i>>)
         \o IndicesWhere(reqs, i + 1, early)

\* The first poll of the futures of reqs: each simulate_transaction runs, in order, up
\* to its remote call or to its early return.
StartItems(reqs) ==
    /\ requests' = reqs
    /\ itemPc' = [i \in 1..Len(reqs) |->
                    IF SimulatePrepare(reqs[i]).tag = "Call" THEN "awaiting" ELSE "done"]
    /\ itemOutcome' = [i \in 1..Len(reqs) |-> None]
    /\ itemResult' = [i \in 1..Len(reqs) |->
                        IF SimulatePrepare(reqs[i]).tag = "Call" THEN None
                        ELSE SimulatePrepare(reqs[i])]
    /\ remoteLog' = LET calling == IndicesWhere(reqs, 1, FALSE)
                    IN  [k \in 1..Len(calling) |->
                            [item |-> calling[k],
                             payload |-> SimulatePrepare(reqs[calling[k]]).payload,
                             block |-> SimulatePrepare(reqs[calling[k]]).block]]
    /\ completed' = IndicesWhere(reqs, 1, TRUE)

\* HyperEvmService::simulate_transaction, called on its own, up to its remote call
SimStart ==
    \E request \in SimulationRequests :
        /\ mode = "idle"
        /\ mode' = "single"
        /\ uuid' = uuid + 1
        /\ simIds' = <<uuid + 1>>
        /\ batchIds' = <<>>
        /\ StartItems(<<request>>)
        /\ output' = IF SimulatePrepare(request).tag = "Call" THEN None
                     ELSE SimulatePrepare(request)
        /\ UNCHANGED <<overflowChecks, traceVars, serviceVars, errorVars, responseVars, authVars>>

\* The remote answers item i's simulate call and that simulate_transaction runs on to
\* its return; a panic in it unwinds through the operation that polls it.
Respond(i, outcome) ==
    LET result == SimulateFinish(requests[i], simIds[i], outcome, overflowChecks)
    IN  /\ i \in 1..Len(itemPc)
        /\ itemPc[i] = "awaiting"
        /\ output = None
        /\ itemPc' = [itemPc EXCEPT ![i] = "done"]
        /\ itemOutcome' = [itemOutcome EXCEPT ![i] = Some(outcome)]
        /\ itemResult' = [itemResult EXCEPT ![i] = result]
        /\ completed' = Append(completed, i)
        /\ output' = IF mode = "single" \/ result.tag = "Panic" THEN result ELSE output
        /\ UNCHANGED <<mode, requests, batchIds, simIds, remoteLog, uuid, overflowChecks>>
        /\ UNCHANGED <<traceVars, serviceVars, errorVars, responseVars, authVars>>

\* simulate_transaction's remote call completes
SimRespond ==
    \E outcome \in SimulateOutcomes :
        /\ mode = "single"
        /\ Respond(1, outcome)

SimNext == SimStart \/ SimRespond

SpecSim == Init /\ [][SimNext]_vars

\* ------------------------------------------------------------------ simulate_batch
\* Requests a batch is made of: one call against latest, two calls against a block
\* number, a call that does not convert, and both block selectors at once.
BatchRequestInputs ==
    {[calls |-> <<GoodCall>>, block_number |-> None, block_tag |-> None,
      state_overrides |-> None],
     [calls |-> <<GoodCall, GoodCall>>, block_number |-> Some(<<"0", "x", "1", "2">>),
      block_tag |-> None, state_overrides |-> None],
     [calls |-> <<BadCall>>, block_number |-> None, block_tag |-> Some("Safe"),
      state_overrides |-> None],
     [calls |-> <<GoodCall>>, block_number |-> Some(<<"0", "x", "1", "2">>),
      block_tag |-> Some("Latest"), state_overrides |-> None]}

\* What the remote answers to a batch item: a lost backend, an error response, no
\* block, a block whose call succeeded, a block with a success and a revert.
BatchOutcomeInputs ==
    {[tag |-> "Err", err |-> [kind |-> "BackendGone"]],
     [tag |-> "Err", err |-> [kind |-> "ErrorResp", text |-> <<"node error">>]],
     [tag |-> "Ok", blocks |-> <<>>],
     [tag |-> "Ok", blocks |-> <<[number |-> 18, gas_used |-> 21000,
                                  calls |-> <<[status |-> TRUE, gas_used |-> 21000,
                                               error |-> None]>>]>>],
     [tag |-> "Ok", blocks |-> <<[number |-> 18, gas_used |-> 21000,
                                  calls |-> <<[status |-> TRUE, gas_used |-> 21000,
                                               error |-> None],
                                              [status |-> FALSE, gas_used |-> 21000,
                                               error |-> Some([code |-> -3200,
                                                   message |-> <<"execution reverted: ",
                                                                 "node error">>])]>>]>>]}

\* HyperEvmService::simulate_batch up to the first poll of join_all: the empty batch is
\* refused; otherwise an id is drawn per item and every item's simulate_transaction runs
\* up to its remote call
BatchStart ==
    \E reqs \in SeqsUpTo(BatchRequestInputs, MaxBatch) :
        /\ mode = "idle"
        /\ mode' = "batch"
        /\ IF reqs = <<>>
           THEN /\ uuid' = uuid + 1
                /\ batchIds' = <<>>
                /\ simIds' = <<>>
                /\ output' = [tag |-> "Err",
                              err |-> [kind |-> "SimulationFailed",
                                       reason |-> <<"Batch simulation requires at least one request">>]]
           ELSE /\ uuid' = uuid + 1 + 2 * Len(reqs)
                /\ batchIds' = [i \in 1..Len(reqs) |-> uuid + 1 + i]
                /\ simIds' = [i \in 1..Len(reqs) |-> uuid + 1 + Len(reqs) + i]
                /\ output' = None
        /\ StartItems(reqs)
        /\ UNCHANGED <<overflowChecks, traceVars, serviceVars, errorVars, responseVars, authVars>>

\* the remote call of one batch item completes
BatchRespond ==
    \E i \in 1..MaxBatch, outcome \in BatchOutcomeInputs :
        /\ mode = "batch"
        /\ Respond(i, outcome)

\* join_all resolves once every item's future has: simulate_batch returns
BatchJoin ==
    /\ mode = "batch"
    /\ output = None
    /\ requests # <<>>
    /\ \A i \in 1..Len(itemPc) : itemPc[i] = "done"
    /\ output' = BatchResult(itemResult, batchIds, completed)
    /\ UNCHANGED <<mode, requests, batchIds, simIds, itemPc, itemOutcome, itemResult,
                   remoteLog, completed, uuid, overflowChecks>>
    /\ UNCHANGED <<traceVars, serviceVars, errorVars, responseVars, authVars>>

BatchNext == BatchStart \/ BatchRespond \/ BatchJoin

SpecBatch == Init /\ [][BatchNext]_vars

\* simulate_transaction and simulate_batch, either of them called
SimulationNext == SimNext \/ BatchNext

SpecSimulation == Init /\ [][SimulationNext]_vars

\* ------------------------------------------------------------------ tracing strategy
\* TracingStrategy::from_config on every tracer set a request can carry
FromConfig ==
    \E tracers \in TracerSets :
        /\ tOp = "none"
        /\ tOp' = "from_config"
        /\ tPc' = "done"
        /\ tracerSet' = Some(tracers)
        /\ strategy' = Some(from_config(tracers))
        /\ UNCHANGED <<tRequest, tIssued, tFutures, tResult>>
        /\ UNCHANGED <<simVars, serviceVars, errorVars, responseVars, authVars>>

StrategyNext == FromConfig

SpecStrategy == Init /\ [][StrategyNext]_vars

\* ------------------------------------------------------------------ trace execution
DefaultStructLogger ==
    [disable_memory |-> TRUE, disable_stack |-> FALSE, disable_storage |-> FALSE,
     disable_return_data |-> FALSE, clean_struct_logs |-> TRUE]

DefaultCallTracer == [only_top_call |-> FALSE, with_logs |-> TRUE]

DefaultPrestateTracer == [diff_mode |-> FALSE, disable_code |-> FALSE, disable_storage |-> FALSE]

NoTracers ==
    [four_byte_tracer |-> FALSE, call_tracer |-> None, prestate_tracer |-> None,
     struct_logger |-> None]

\* the tracer sets traced with: one per arm of from_config, with one and with several
\* active tracers
TraceTracerInputs ==
    {NoTracers,
     [NoTracers EXCEPT !.struct_logger = Some(DefaultStructLogger)],
     [NoTracers EXCEPT !.call_tracer = Some(DefaultCallTracer)],
     [NoTracers EXCEPT !.call_tracer = Some(DefaultCallTracer),
                       !.prestate_tracer = Some(DefaultPrestateTracer)],
     [NoTracers EXCEPT !.four_byte_tracer = TRUE,
                       !.struct_logger = Some(DefaultStructLogger)],
     [NoTracers EXCEPT !.call_tracer = Some(DefaultCallTracer),
                       !.prestate_tracer = Some(DefaultPrestateTracer),
                       !.struct_logger = Some([DefaultStructLogger EXCEPT
                                                  !.disable_memory = FALSE])]}

\* the operation builds its futures: every trace_fn call is made before the first await
IssueCalls(op, tracers, request, calls) ==
    /\ tOp' = op
    /\ tracerSet' = Some(tracers)
    /\ strategy' = Some(from_config(tracers))
    /\ tRequest' = Some(request)
    /\ tResult' = None
    /\ IF calls.tag = "Panic"
       THEN /\ tPc' = "panicked"
            /\ tIssued' = <<>>
            /\ tFutures' = <<>>
       ELSE /\ tPc' = "joining"
            /\ tIssued' = calls.val
            /\ tFutures' = [k \in 1..Len(calls.val) |-> Pending]
    /\ UNCHANGED <<simVars, serviceVars, errorVars, responseVars, authVars>>

\* TracingStrategy::execute, on the strategy built from the request's tracer set
Execute ==
    \E tracers \in TraceTracerInputs, tx_hash \in TxHashes :
        /\ tOp = "none"
        /\ IssueCalls("execute", tracers, tx_hash,
                      [tag |-> "Ok", val |-> ExecuteCalls(from_config(tracers), tx_hash)])

\* TracingStrategy::execute_call
ExecuteCall ==
    \E tracers \in TraceTracerInputs, call_request \in TraceCallRequests :
        /\ tOp = "none"
        /\ IssueCalls("execute_call", tracers, call_request,
                      ExecuteCallCalls(from_config(tracers), call_request))

\* TracingStrategy::execute_call_many
ExecuteCallMany ==
    \E tracers \in TraceTracerInputs, call_request \in TraceCallManyRequests :
        /\ tOp = "none"
        /\ IssueCalls("execute_call_many", tracers, call_request,
                      ExecuteCallManyCalls(from_config(tracers), call_request))

\* Some of the calls in flight resolve, and the operation is polled: it returns as
\* soon as its await can, and what is still in flight is dropped with it.
TraceRespond ==
    \E done \in (SUBSET {k \in 1..Len(tFutures) : tFutures[k] = Pending}) \ {{}} :
        \E outcome \in [done -> TraceOutcomes(tOp)] :
            LET futures == [k \in 1..Len(tFutures) |->
                               IF k \in done THEN outcome[k] ELSE tFutures[k]]
                results == ExecuteResults(strategy.val, futures)
            IN  /\ tPc = "joining"
                /\ tFutures' = futures
                /\ IF results = {}
                   THEN /\ tPc' = "joining"
                        /\ tResult' = None
                   ELSE /\ tPc' = "done"
                        /\ \E result \in results : tResult' = Some(result)
                /\ UNCHANGED <<tOp, tracerSet, strategy, tRequest, tIssued>>
                /\ UNCHANGED <<simVars, serviceVars, errorVars, responseVars, authVars>>

TraceNext == Execute \/ ExecuteCall \/ ExecuteCallMany \/ TraceRespond

SpecTrace == Init /\ [][TraceNext]_vars

\* ------------------------------------------------------------------ trace service
\* transaction_hash of a TraceTransactionRequest: a hash, or text that is none
TraceHashInputs == {"0xaa", "not a hash"}

\* B256::from_str
B256FromStr(text) == IF text \in TxHashes THEN Some(text) ELSE None

\* BlockId::from_str: a tag or a hex or decimal number
BlockIdTryFromStr(block) ==
    IF block = <<"l", "a", "t", "e", "s", "t">> THEN Some([tag |-> "Latest"])
    ELSE LET number == IF StartsWith0x(block)
                       THEN FromStrRadix16(SubSeq(block, 3, Len(block)))
                       ELSE ParseDecimal(block)
         IN  IF IsSome(number) THEN Some([tag |-> "Number", number |-> number.val])
             ELSE None

\* the call requests traced by the service: the call and the block vary
ServiceCallRequests ==
    {r \in TraceCallRequests : r.state_overrides = None /\ r.block_overrides = None}

\* the call-many requests traced by the service: no bundle, one, and one that panics
ServiceCallManyRequests ==
    {r \in TraceCallManyRequests :
        /\ r.state_context = [block |-> <<"0", "x", "1", "2">>, tx_index |-> [tag |-> "End"]]
        /\ \A i \in 1..Len(r.bundles) : r.bundles[i].block_overrides = None
        /\ Len(r.bundles) <= 1}

\* AccessListRequest: the call and the block it is made on
AccessListRequests == [params : CallInputs, block : TraceBlockInputs]

\* AccessListRequest::try_into_tx_request
try_into_tx_request(request) == ConvertCall(request.params)

\* the transport errors a remote call of the service fails with
RemoteFailures ==
    {e \in TransportErrors :
        \/ e.kind = "BackendGone"
        \/ e.kind = "HttpError" /\ e.status = 429 /\ e.body = <<>>
        \/ e.kind = "ErrorResp" /\ e.text = <<"revert">>}

\* the lists of traces debug_traceCallMany answers with
GethFrameLists ==
    {<<>>}
    \cup {<<t>> : t \in DefaultFrames \cup CallFrames \cup FourByteFrames}
    \cup {<<t, s>> : t \in CallFrames, s \in DefaultFrames \cup MuxFrames}

\* what a remote call of the service resolves to: the failure as the transport reports
\* it (cause) and as the RpcError the operation receives (err), or the answer
RemoteOutcomes(method) ==
    {[tag |-> "Err", err |-> RpcErrorFrom(e), cause |-> e] : e \in RemoteFailures}
    \cup {[tag |-> "Ok", val |-> v] :
            v \in CASE method = "debug_traceCallMany" -> GethFrameLists
                    [] method = "eth_createAccessList" -> {"access list"}
                    [] OTHER -> GethFrames}

\* what get_transaction_receipt resolves to
ReceiptOutcomes ==
    {[tag |-> "Err", cause |-> e] : e \in RemoteFailures}
    \cup {[tag |-> "Ok", val |-> None], [tag |-> "Ok", val |-> Some("receipt")]}

\* create_access_list(..).block_id(..).await.map_err(..)?
AwaitAccessList(futures) ==
    IF futures[1].tag = "Err"
    THEN {[tag |-> "Err", err |-> NodeCommunication(RpcErrorFrom(futures[1].cause))]}
    ELSE IF futures[1].tag = "Ok" THEN {[tag |-> "Ok", val |-> futures[1].val]}
    ELSE {}

Min(a, b) == IF a <= b THEN a ELSE b

\* a conversion that pairs the traces of the two lists from opposite ends
into_individual_results_crossed(result) ==
    IF result.tag = "Single"
    THEN [i \in 1..Len(result.trace) |->
             [tag |-> "Single", trace |-> result.trace[Len(result.trace) + 1 - i]]]
    ELSE [i \in 1..Min(Len(result.tracers_trace), Len(result.struct_logger_trace)) |->
             [tag |-> "Dual", tracers_trace |-> result.tracers_trace[i],
              struct_logger_trace |->
                  result.struct_logger_trace[Len(result.struct_logger_trace) + 1 - i]]]

\* a conversion that yields nothing when the two lists differ in length
into_individual_results_strict(result) ==
    IF result.tag = "Single"
    THEN [i \in 1..Len(result.trace) |-> [tag |-> "Single", trace |-> result.trace[i]]]
    ELSE IF Len(result.tracers_trace) # Len(result.struct_logger_trace) THEN <<>>
    ELSE [i \in 1..Len(result.tracers_trace) |->
             [tag |-> "Dual", tracers_trace |-> result.tracers_trace[i],
              struct_logger_trace |-> result.struct_logger_trace[i]]]

\* TracingResultMany::into_individual_results
into_individual_results(result) ==
    IF result.tag = "Single"
    THEN [i \in 1..Len(result.trace) |-> [tag |-> "Single", trace |-> result.trace[i]]]
    ELSE [i \in 1..Min(Len(result.tracers_trace), Len(result.struct_logger_trace)) |->
             [tag |-> "Dual", tracers_trace |-> result.tracers_trace[i],
              struct_logger_trace |-> result.struct_logger_trace[i]]]

\* TraceResponse::new
TraceResponseNew(trace_result) == [trace_result |-> trace_result, receipt |-> None]

\* impl From<TransactionReceipt> for TransactionReceiptInfo
TransactionReceiptInfoFrom(tx_receipt) == [info_of |-> tx_receipt]

\* a trace_transaction that answers without the receipt when fetching it fails
ServiceReturnsLenient(op, result, receipt_result) ==
    CASE op = "trace_transaction" ->
            IF result.tag = "Err"
            THEN [tag |-> "Err", err |-> NodeCommunication(result.err)]
            ELSE IF receipt_result.tag = "Err" \/ ~IsSome(receipt_result.val)
            THEN [tag |-> "Ok", val |-> TraceResponseNew(result.val)]
            ELSE [tag |-> "Ok",
                  val |-> [TraceResponseNew(result.val) EXCEPT
                              !.receipt =
                                  Some(TransactionReceiptInfoFrom(receipt_result.val.val))]]
      [] op = "trace_call" ->
            IF result.tag = "Err"
            THEN [tag |-> "Err", err |-> NodeCommunication(result.err)]
            ELSE [tag |-> "Ok", val |-> TraceResponseNew(result.val)]
      [] op = "trace_call_many" ->
            IF result.tag = "Err"
            THEN [tag |-> "Err", err |-> NodeCommunication(result.err)]
            ELSE [tag |-> "Ok",
                  val |-> LET results == into_individual_results(result.val)
                          IN  [i \in 1..Len(results) |-> TraceResponseNew(results[i])]]
      [] op = "create_access_list" -> result

\* a trace_transaction that looks at the receipt fetch before the trace
ServiceReturnsReceiptFirst(op, result, receipt_result) ==
    CASE op = "trace_transaction" ->
            IF receipt_result.tag = "Err"
            THEN [tag |-> "Err",
                  err |-> NodeCommunication(RpcErrorFrom(receipt_result.cause))]
            ELSE IF result.tag = "Err"
            THEN [tag |-> "Err", err |-> NodeCommunication(result.err)]
            ELSE IF ~IsSome(receipt_result.val)
            THEN [tag |-> "Err",
                  err |-> trace_failed(<<"No receipt found for transaction">>)]
            ELSE [tag |-> "Ok",
                  val |-> [TraceResponseNew(result.val) EXCEPT
                              !.receipt =
                                  Some(TransactionReceiptInfoFrom(receipt_result.val.val))]]
      [] op = "trace_call" ->
            IF result.tag = "Err"
            THEN [tag |-> "Err", err |-> NodeCommunication(result.err)]
            ELSE [tag |-> "Ok", val |-> TraceResponseNew(result.val)]
      [] op = "trace_call_many" ->
            IF result.tag = "Err"
            THEN [tag |-> "Err", err |-> NodeCommunication(result.err)]
            ELSE [tag |-> "Ok",
                  val |-> LET results == into_individual_results(result.val)
                          IN  [i \in 1..Len(results) |-> TraceResponseNew(results[i])]]
      [] op = "create_access_list" -> result

\* what the service operation returns once the strategy (for create_access_list, the
\* call) has returned result and, for trace_transaction, the receipt fetch has resolved
ServiceReturns(op, result, receipt_result) ==
    CASE op = "trace_transaction" ->
            IF result.tag = "Err"
            THEN [tag |-> "Err", err |-> NodeCommunication(result.err)]
            ELSE IF receipt_result.tag = "Err"
            THEN [tag |-> "Err",
                  err |-> NodeCommunication(RpcErrorFrom(receipt_result.cause))]
            ELSE IF ~IsSome(receipt_result.val)
            THEN [tag |-> "Err",
                  err |-> trace_failed(<<"No receipt found for transaction">>)]
            ELSE [tag |-> "Ok",
                  val |-> [TraceResponseNew(result.val) EXCEPT
                              !.receipt =
                                  Some(TransactionReceiptInfoFrom(receipt_result.val.val))]]
      [] op = "trace_call" ->
            IF result.tag = "Err"
            THEN [tag |-> "Err", err |-> NodeCommunication(result.err)]
            ELSE [tag |-> "Ok", val |-> TraceResponseNew(result.val)]
      [] op = "trace_call_many" ->
            IF result.tag = "Err"
            THEN [tag |-> "Err", err |-> NodeCommunication(result.err)]
            ELSE [tag |-> "Ok",
                  val |-> LET results == into_individual_results(result.val)
                          IN  [i \in 1..Len(results) |-> TraceResponseNew(results[i])]]
      [] op = "create_access_list" -> result

\* TraceConfig::should_clean_struct_logger
should_clean_struct_logger(tracers) ==
    IsSome(tracers.struct_logger) /\ tracers.struct_logger.val.clean_struct_logs

\* the Ok arm of a trace handler after TracerResponse::from: the response with its
\* receipt, cleaned where the request asks for it; a panic of the conversion goes through
WithReceiptAndCleaned(converted, receipt_info, tracers) ==
    IF converted.tag = "Panic" THEN converted
    ELSE [tag |-> "Ok",
          val |-> IF should_clean_struct_logger(tracers)
                  THEN clean_struct_logger([converted.val EXCEPT !.receipt = receipt_info])
                  ELSE [converted.val EXCEPT !.receipt = receipt_info]]

\* the Ok arm of a trace handler for one TraceResponse: the TracerResponse of its trace
\* result, with its receipt, cleaned where the request asks for it
HandlerTracerResponse(response, tracers) ==
    WithReceiptAndCleaned(TracerResponseFrom(response.trace_result), response.receipt,
                          tracers)

\* the answer of a trace handler given the TracerResponse of each TraceResponse: the one
\* response of trace_transaction and trace_call, the list of trace_call_many; a panic
\* while building any of them ends the handler
HandlerAnswer(op, converted) ==
    IF \E i \in 1..Len(converted) : converted[i].tag = "Panic" THEN [tag |-> "Panic"]
    ELSE IF op = "trace_call_many"
    THEN [tag |-> "Ok", val |-> [i \in 1..Len(converted) |-> converted[i].val]]
    ELSE converted[1]

\* what the handler makes of what its service operation returned
HandlerReturns(op, result, tracers) ==
    IF result.tag = "Err" THEN [tag |-> "Err", err |-> ApiErrorFrom(result.err)]
    ELSE IF op = "create_access_list" THEN [tag |-> "Ok", val |-> result.val]
    ELSE HandlerAnswer(op, [i \in 1..(IF op = "trace_call_many" THEN Len(result.val) ELSE 1) |->
                               HandlerTracerResponse(IF op = "trace_call_many"
                                                     THEN result.val[i] ELSE result.val,
                                                     tracers.val)])

\* the operation returns before any remote call: service and handler are done
ReturnEarly(op, tracers, request, error) ==
    /\ sOp' = op
    /\ tOp' = "none"
    /\ tPc' = "done"
    /\ tracerSet' = tracers
    /\ strategy' = None
    /\ tRequest' = Some(request)
    /\ tIssued' = <<>>
    /\ tFutures' = <<>>
    /\ tResult' = None
    /\ receipt' = None
    /\ serviceResult' = Some([tag |-> "Err", err |-> error])
    /\ handlerResult' = Some([tag |-> "Err", err |-> ApiErrorFrom(error)])

\* the operation makes its remote calls and awaits them; a conversion that panics
\* ends it there
StartCalls(op, strategyOp, tracers, request, calls, with_receipt) ==
    /\ sOp' = op
    /\ tOp' = strategyOp
    /\ tracerSet' = tracers
    /\ strategy' = IF IsSome(tracers) THEN Some(from_config(tracers.val)) ELSE None
    /\ tRequest' = Some(request)
    /\ tResult' = None
    /\ serviceResult' = None
    /\ IF calls.tag = "Panic"
       THEN /\ tPc' = "panicked"
            /\ tIssued' = <<>>
            /\ tFutures' = <<>>
            /\ receipt' = None
            /\ handlerResult' = Some([tag |-> "Panic"])
       ELSE /\ tPc' = "joining"
            /\ tIssued' = calls.val
            /\ tFutures' = [k \in 1..Len(calls.val) |-> Pending]
            /\ receipt' = IF with_receipt THEN Pending ELSE None
            /\ handlerResult' = None

\* handler trace_transaction over HyperEvmService::trace_transaction
TraceTransaction ==
    \E tracers \in TraceTracerInputs, transaction_hash \in TraceHashInputs :
        /\ sOp = "none" /\ tOp = "none"
        /\ IF IsSome(B256FromStr(transaction_hash))
           THEN StartCalls("trace_transaction", "execute", Some(tracers), transaction_hash,
                           [tag |-> "Ok",
                            val |-> ExecuteCalls(from_config(tracers),
                                                 B256FromStr(transaction_hash).val)],
                           TRUE)
           ELSE ReturnEarly("trace_transaction", Some(tracers), transaction_hash,
                            trace_failed(<<"Invalid transaction hash: ", transaction_hash>>))
        /\ UNCHANGED <<simVars, errorVars, responseVars, authVars>>

\* handler trace_call over HyperEvmService::trace_call
TraceCall ==
    \E tracers \in TraceTracerInputs, request \in ServiceCallRequests :
        /\ sOp = "none" /\ tOp = "none"
        /\ IF IsSome(BlockIdTryFromStr(request.block))
           THEN StartCalls("trace_call", "execute_call", Some(tracers), request,
                           ExecuteCallCalls(from_config(tracers), request), FALSE)
           ELSE ReturnEarly("trace_call", Some(tracers), request,
                            invalid_block_context(<<"Invalid block identifier: ">>
                                                  \o request.block))
        /\ UNCHANGED <<simVars, errorVars, responseVars, authVars>>

\* handler trace_call_many over HyperEvmService::trace_call_many
TraceCallMany ==
    \E tracers \in TraceTracerInputs, request \in ServiceCallManyRequests :
        /\ sOp = "none" /\ tOp = "none"
        /\ StartCalls("trace_call_many", "execute_call_many", Some(tracers), request,
                      ExecuteCallManyCalls(from_config(tracers), request), FALSE)
        /\ UNCHANGED <<simVars, errorVars, responseVars, authVars>>

\* handler create_access_list over HyperEvmService::create_access_list
CreateAccessList ==
    \E request \in AccessListRequests :
        /\ sOp = "none" /\ tOp = "none"
        /\ IF ~IsSome(BlockIdTryFromStr(request.block))
           THEN ReturnEarly("create_access_list", None, request,
                            invalid_block_context(<<"Invalid block identifier: ">>
                                                  \o request.block))
           ELSE IF try_into_tx_request(request).tag = "Err"
           THEN ReturnEarly("create_access_list", None, request,
                            access_list_failed(<<"Invalid transaction call: ",
                                                 "conversion error">>))
           ELSE StartCalls("create_access_list", "none", None, request,
                           [tag |-> "Ok",
                            val |-> <<[method |-> "eth_createAccessList",
                                       tx_request |-> try_into_tx_request(request).val,
                                       block_id |-> BlockIdTryFromStr(request.block).val]>>],
                           FALSE)
        /\ UNCHANGED <<simVars, errorVars, responseVars, authVars>>

\* Remote calls in flight resolve and the operation is polled. The strategy returns as
\* soon as its await can and drops what it still had in flight; trace_transaction
\* joins it with the receipt fetch and goes on when both are through. The service
\* operation then returns and the handler answers, in this same step.
ServiceRespond ==
    \E done \in (SUBSET ({k \in 1..Len(tFutures) : tFutures[k] = Pending /\ tResult = None}
                         \cup (IF receipt = Pending THEN {0} ELSE {}))) \ {{}} :
        \E outcome \in [done \ {0} -> RemoteOutcomes(tIssued[1].method)],
           receipt_outcome \in (IF 0 \in done THEN ReceiptOutcomes ELSE {receipt}) :
            LET futures == [k \in 1..Len(tFutures) |->
                               IF k \in done THEN outcome[k] ELSE tFutures[k]]
                results == IF IsSome(tResult) THEN {tResult.val}
                           ELSE IF sOp = "create_access_list" THEN AwaitAccessList(futures)
                           ELSE ExecuteResults(strategy.val, futures)
            IN  /\ sOp # "none"
                /\ tPc = "joining"
                /\ tFutures' = futures
                /\ receipt' = receipt_outcome
                /\ IF results = {} \/ receipt_outcome = Pending
                   THEN /\ tPc' = "joining"
                        /\ \E result \in (IF results = {} THEN {None}
                                          ELSE {Some(r) : r \in results}) :
                              tResult' = result
                        /\ UNCHANGED <<serviceResult, handlerResult>>
                   ELSE /\ tPc' = "done"
                        /\ \E result \in results :
                              LET returned == ServiceReturns(sOp, result, receipt_outcome)
                              IN  /\ tResult' = Some(result)
                                  /\ serviceResult' = Some(returned)
                                  /\ handlerResult' =
                                        Some(HandlerReturns(sOp, returned, tracerSet))
                /\ UNCHANGED <<sOp, tOp, tracerSet, strategy, tRequest, tIssued>>
                /\ UNCHANGED <<simVars, errorVars, responseVars, authVars>>

ServiceNext ==
    TraceTransaction \/ TraceCall \/ TraceCallMany \/ CreateAccessList \/ ServiceRespond

SpecService == Init /\ [][ServiceNext]_vars

\* ------------------------------------------------------------------ error tiers
\* RpcError::from classifies a transport error
Classify ==
    \E err \in TransportErrors :
        /\ rpcError = None
        /\ rpcError' = Some(RpcErrorFrom(err))
        /\ UNCHANGED <<serviceError, apiError>>
        /\ UNCHANGED <<simVars, traceVars, serviceVars, responseVars, authVars>>

\* an RpcError of another variant is constructed
Raise ==
    \E rpc \in UnclassifiedRpcErrors :
        /\ rpcError = None
        /\ rpcError' = Some(rpc)
        /\ UNCHANGED <<serviceError, apiError>>
        /\ UNCHANGED <<simVars, traceVars, serviceVars, responseVars, authVars>>

\* map_err(ServiceError::NodeCommunication) / From<RpcError> for ServiceError
WrapInServiceError ==
    /\ IsSome(rpcError)
    /\ serviceError = None
    /\ serviceError' = Some(NodeCommunication(rpcError.val))
    /\ UNCHANGED <<rpcError, apiError>>
    /\ UNCHANGED <<simVars, traceVars, serviceVars, responseVars, authVars>>

\* ApiError::from(e) in a handler / From<ServiceError> for ApiError
WrapInApiError ==
    /\ IsSome(serviceError)
    /\ apiError = None
    /\ apiError' = Some(ApiErrorFrom(serviceError.val))
    /\ UNCHANGED <<rpcError, serviceError>>
    /\ UNCHANGED <<simVars, traceVars, serviceVars, responseVars, authVars>>

ErrorNext == Classify \/ Raise \/ WrapInServiceError \/ WrapInApiError

SpecErrors == Init /\ [][ErrorNext]_vars

\* ------------------------------------------------------------------ auth middleware
\* AuthMiddlewareFactory::new and new_transform: the middleware is built with a token
NewTransform ==
    \E token \in ApiTokens :
        /\ api_token = None
        /\ api_token' = Some(token)
        /\ UNCHANGED <<authRequest, authOutcome, innerCalls>>
        /\ UNCHANGED <<simVars, traceVars, serviceVars, errorVars, responseVars>>

\* AuthMiddleware::call on one request
AuthMiddlewareCall ==
    \E request \in AuthRequests :
        /\ IsSome(api_token)
        /\ authOutcome = "none"
        /\ innerCalls < MaxRequests
        /\ authRequest' = Some(request)
        /\ authOutcome' = AuthCall(api_token.val, request)
        /\ innerCalls' = IF AuthCall(api_token.val, request) = "forwarded"
                         THEN innerCalls + 1 ELSE innerCalls
        /\ UNCHANGED api_token
        /\ UNCHANGED <<simVars, traceVars, serviceVars, errorVars, responseVars>>

\* the response goes back to the client and the middleware is ready for the next request
AuthReturn ==
    /\ authOutcome # "none"
    /\ authOutcome' = "none"
    /\ authRequest' = None
    /\ UNCHANGED <<api_token, innerCalls>>
    /\ UNCHANGED <<simVars, traceVars, serviceVars, errorVars, responseVars>>

AuthNext == NewTransform \/ AuthMiddlewareCall \/ AuthReturn

SpecAuth == Init /\ [][AuthNext]_vars

\* ------------------------------------------------------------------ response conversions
\* the frames and results the TracerResponse conversion is applied to on its own: every
\* tracing result, and a struct-log frame of every content
TracingResultInputs ==
    TracingResults
    \cup {[tag |-> "Single", trace |-> [tag |-> "Default", frame |-> frame]] :
            frame \in DefaultFrameInputs}

\* StructLogResponse::from(frame)
StructLogFromFrame ==
    \E frame \in DefaultFrameInputs :
        /\ cOp = "none"
        /\ cOp' = "struct_log_from"
        /\ cInput' = Some([tag |-> "Default", frame |-> frame])
        /\ cOutput' = Some(StructLogResponseFrom([tag |-> "Default", frame |-> frame]))
        /\ UNCHANGED <<simVars, traceVars, serviceVars, errorVars, authVars>>

\* CallTraceResponse::from(frame)
CallTraceFromFrame ==
    \E frame \in CallFrameInputs :
        /\ cOp = "none"
        /\ cOp' = "call_trace_from"
        /\ cInput' = Some([tag |-> "CallTracer", frame |-> frame])
        /\ cOutput' = Some([tag |-> "Ok",
                            val |-> CallTraceResponseFrom([tag |-> "CallTracer",
                                                           frame |-> frame])])
        /\ UNCHANGED <<simVars, traceVars, serviceVars, errorVars, authVars>>

\* TracerResponse::extract_from_js_trace(&value, &mut TracerResponse::default())
ExtractFromJsTrace ==
    \E value \in JsValueInputs :
        /\ cOp = "none"
        /\ cOp' = "extract_from_js_trace"
        /\ cInput' = Some(value)
        /\ cOutput' = Some(extract_from_js_trace(value, DefaultTracerResponse))
        /\ UNCHANGED <<simVars, traceVars, serviceVars, errorVars, authVars>>

\* TracerResponse::from(result)
TracerResponseFromResult ==
    \E result \in TracingResultInputs :
        /\ cOp = "none"
        /\ cOp' = "tracer_response_from"
        /\ cInput' = Some(result)
        /\ cOutput' = Some(TracerResponseFrom(result))
        /\ UNCHANGED <<simVars, traceVars, serviceVars, errorVars, authVars>>

\* response.clean_struct_logger(), on the response a conversion or an earlier clean made
CleanStructLogger ==
    /\ cOp \in {"tracer_response_from", "extract_from_js_trace", "clean_struct_logger"}
    /\ cOutput.val.tag = "Ok"
    /\ cOp' = "clean_struct_logger"
    /\ cInput' = Some(cOutput.val.val)
    /\ cOutput' = Some([tag |-> "Ok", val |-> clean_struct_logger(cOutput.val.val)])
    /\ UNCHANGED <<simVars, traceVars, serviceVars, errorVars, authVars>>

\* the response is handed on
ResponseReturn ==
    /\ cOp # "none"
    /\ cOp' = "none"
    /\ cInput' = None
    /\ cOutput' = None
    /\ UNCHANGED <<simVars, traceVars, serviceVars, errorVars, authVars>>

ResponseNext ==
    \/ StructLogFromFrame
    \/ CallTraceFromFrame
    \/ ExtractFromJsTrace
    \/ TracerResponseFromResult
    \/ CleanStructLogger
    \/ ResponseReturn

SpecResponse == Init /\ [][ResponseNext]_vars

\* ------------------------------------------------------------------ claims: simulation
\* The remote call of item i failed.
RemoteFailed(i) ==
    /\ i \in 1..Len(itemOutcome)
    /\ IsSome(itemOutcome[i])
    /\ itemOutcome[i].val.tag = "Err"

\* C1: whenever simulate_transaction got past payload conversion and block-context
\* resolution and its remote simulate call failed (any transport/RPC error), it returns
\* Ok with status Failed and one call outcome per requested call, with call_index
\* 0..n-1 in order.
C1_RemoteFailureIsFailedResult ==
    (mode = "single" /\ RemoteFailed(1)) =>
        /\ output.tag = "Ok"
        /\ output.val.status = "Failed"
        /\ Len(output.val.calls) = Len(requests[1].calls)
        /\ \A k \in 1..Len(output.val.calls) : output.val.calls[k].call_index = k - 1

\* C1 witness: a two-call request whose remote call failed came back as a result.
C1_Witness ==
    /\ mode = "single"
    /\ RemoteFailed(1)
    /\ Len(requests[1].calls) = 2
    /\ output.tag = "Ok"
    /\ Len(output.val.calls) = 2

\* C2: in the failed result synthesized after a remote failure every call outcome is
\* Reverted and carries an error whose reason and message are non-empty and hold no URL
\* and no IPv4 literal.
C2_FailureReasonSanitized ==
    (mode = "single" /\ RemoteFailed(1) /\ output.tag = "Ok") =>
        \A k \in 1..Len(output.val.calls) :
            LET c == output.val.calls[k]
            IN  /\ c.status = "Reverted"
                /\ IsSome(c.error)
                /\ c.error.val.reason # <<>>
                /\ ~HasUrl(c.error.val.reason) /\ ~HasIp(c.error.val.reason)
                /\ IsSome(c.error.val.message)
                /\ c.error.val.message.val # <<>>
                /\ ~HasUrl(c.error.val.message.val) /\ ~HasIp(c.error.val.message.val)

\* What simulate_transaction returns for item i given what the remote answered it.
ResultOfItem(i) ==
    IF SimulatePrepare(requests[i]).tag = "Call"
    THEN SimulateFinish(requests[i], simIds[i], itemOutcome[i].val, overflowChecks)
    ELSE SimulatePrepare(requests[i])

ItemFailed(i) == RemoteFailed(i) \/ itemResult[i].tag = "Err"

\* C4: a non-empty batch never returns Err; an item that failed is a Failed result at
\* its own position, and every item whose simulate_transaction returned Ok has exactly
\* that result (under the batch's own simulation_id) at its position.
C4_BatchFailureIsolated ==
    (mode = "batch" /\ requests # <<>> /\ output # None) =>
        /\ output.tag = "Ok"
        /\ \A i \in 1..Len(requests) :
              /\ ItemFailed(i) => output.val[i].status = "Failed"
              /\ itemResult[i].tag = "Ok" =>
                    output.val[i] = [itemResult[i].val EXCEPT !.simulation_id = batchIds[i]]

\* C4 witness: a returned batch in which one item's simulate_transaction returned Err and
\* another item's succeeded.
C4_Witness ==
    /\ mode = "batch"
    /\ output.tag = "Ok"
    /\ \E i, j \in 1..Len(requests) :
          /\ itemResult[i].tag = "Err"
          /\ output.val[i].status = "Failed"
          /\ itemResult[j].tag = "Ok"
          /\ output.val[j].status = "Success"

\* ------------------------------------------------------------------ claims: tracing strategy
\* the tracers of a set that are switched on, the struct logger not being one of them
ActiveTracers(tracers) ==
    (IF tracers.four_byte_tracer THEN {"FourByteTracer"} ELSE {})
    \cup (IF tracers.call_tracer # None THEN {"CallTracer"} ELSE {})
    \cup (IF tracers.prestate_tracer # None THEN {"PreStateTracer"} ELSE {})

\* the tracer config the request gives for one of its active tracers
RequestedConfig(tracers, name) ==
    CASE name = "FourByteTracer" -> NullTracerConfig
      [] name = "CallTracer" ->
            [kind |-> "CallConfig",
             only_top_call |-> Some(tracers.call_tracer.val.only_top_call),
             with_log |-> Some(tracers.call_tracer.val.with_logs)]
      [] name = "PreStateTracer" ->
            [kind |-> "PreStateConfig",
             diff_mode |-> Some(tracers.prestate_tracer.val.diff_mode),
             disable_code |-> Some(tracers.prestate_tracer.val.disable_code),
             disable_storage |-> Some(tracers.prestate_tracer.val.disable_storage)]

StrategyBuilt == tOp = "from_config"

\* C5: from_config yields a strategy for every tracer set, and its variant is decided
\* by (number of active non-struct tracers, struct logger present) alone:
\* (0, present) StructLoggerOnly; (>=1, absent) TracersOnly; (>=1, present) Hybrid;
\* (0, absent) TracersOnly with the default call tracer.
C5_VariantByCountAndStructLogger ==
    StrategyBuilt =>
        LET t == tracerSet.val
            st == strategy.val
            n == Cardinality(ActiveTracers(t))
            sl == t.struct_logger # None
        IN  /\ st.kind \in {"StructLoggerOnly", "TracersOnly", "Hybrid"}
            /\ (n = 0 /\ sl) => st.kind = "StructLoggerOnly"
            /\ (n >= 1 /\ ~sl) => st.kind = "TracersOnly"
            /\ (n >= 1 /\ sl) => st.kind = "Hybrid"
            /\ (n = 0 /\ ~sl) =>
                    /\ st.kind = "TracersOnly"
                    /\ st.options.tracer = Some("CallTracer")
                    /\ st.options.tracer_config =
                          [kind |-> "CallConfig", only_top_call |-> None, with_log |-> None]
            /\ \A other \in TraceTracerInputs :
                    (Cardinality(ActiveTracers(other)) = n /\ (other.struct_logger # None) = sl)
                        => from_config(other).kind = st.kind

\* one active tracer together with the struct logger: the Hybrid arm
C5_Witness ==
    /\ StrategyBuilt
    /\ Cardinality(ActiveTracers(tracerSet.val)) = 1
    /\ tracerSet.val.struct_logger # None
    /\ strategy.val.kind = "Hybrid"

\* C8: no options value of a strategy combines the struct logger with another tracer:
\* each has at most one tracer selector; the options carrying the request's struct-log
\* settings have none; options with a selector carry the default struct-log settings;
\* a mux set holds only the three non-struct tracers.
C8_StructLoggerNeverCombined ==
    StrategyBuilt =>
        LET t == tracerSet.val
            st == strategy.val
            options == StrategyOptions(st)
        IN  /\ \A k \in 1..Len(options) :
                  /\ options[k].tracer \in
                        {None} \cup {Some(name) : name \in {"FourByteTracer", "CallTracer",
                                                            "PreStateTracer", "MuxTracer"}}
                  /\ options[k].config # DefaultTracingOptions => options[k].tracer = None
                  /\ options[k].tracer # None => options[k].config = DefaultTracingOptions
                  /\ options[k].tracer = Some("MuxTracer") =>
                        {e[1] : e \in options[k].tracer_config.mux}
                            \subseteq {"FourByteTracer", "CallTracer", "PreStateTracer"}
            /\ st.kind \in {"StructLoggerOnly", "Hybrid"} =>
                  LET o == options[Len(options)]
                      sl == t.struct_logger.val
                  IN  /\ o.tracer = None
                      /\ o.config.disable_memory = Some(sl.disable_memory)
                      /\ o.config.disable_stack = Some(sl.disable_stack)
                      /\ o.config.disable_storage = Some(sl.disable_storage)
                      /\ o.config.disable_return_data = Some(sl.disable_return_data)

\* the struct logger next to two tracers: a mux call and a struct-logger call
C8_Witness ==
    /\ StrategyBuilt
    /\ strategy.val.kind = "Hybrid"
    /\ strategy.val.tracers_options.tracer = Some("MuxTracer")
    /\ strategy.val.struct_logger_options.config.disable_stack = Some(TRUE)

\* C9: the tracers options of TracersOnly (one active tracer or more) and of Hybrid:
\* one active tracer is selected as itself with its own config; two or three are
\* selected as the mux tracer whose set is exactly the active set.
C9_TracersOptionsSelectActiveSet ==
    (StrategyBuilt /\ Cardinality(ActiveTracers(tracerSet.val)) >= 1) =>
        LET t == tracerSet.val
            st == strategy.val
            active == ActiveTracers(t)
            o == IF st.kind = "Hybrid" THEN st.tracers_options ELSE st.options
        IN  /\ st.kind \in {"TracersOnly", "Hybrid"}
            /\ Cardinality(active) = 1 =>
                  \E name \in active :
                      /\ o.tracer = Some(name)
                      /\ o.tracer_config = RequestedConfig(t, name)
            /\ Cardinality(active) >= 2 =>
                  /\ o.tracer = Some("MuxTracer")
                  /\ o.tracer_config.kind = "MuxConfig"
                  /\ {e[1] : e \in o.tracer_config.mux} = active
                  /\ Cardinality(o.tracer_config.mux) = Cardinality(active)
                  /\ \A e \in o.tracer_config.mux :
                        e[2] = IF e[1] = "FourByteTracer" THEN None
                               ELSE Some(RequestedConfig(t, e[1]))

\* all three tracers and the struct logger: the mux of a Hybrid strategy
C9_Witness ==
    /\ StrategyBuilt
    /\ Cardinality(ActiveTracers(tracerSet.val)) = 3
    /\ strategy.val.kind = "Hybrid"
    /\ strategy.val.tracers_options.tracer = Some("MuxTracer")

\* C10: count_active_tracers is the number of fourByte, call and prestate tracers that
\* are set, whatever the struct logger is, and is_mux holds exactly from two on.
C10_CountExcludesStructLogger ==
    StrategyBuilt =>
        LET t == tracerSet.val
        IN  /\ count_active_tracers(t) = Cardinality(ActiveTracers(t))
            /\ count_active_tracers(t) = count_active_tracers([t EXCEPT !.struct_logger = None])
            /\ is_mux(t) <=> Cardinality(ActiveTracers(t)) >= 2

\* one tracer and the struct logger: counted as one, and no mux
C10_Witness ==
    /\ StrategyBuilt
    /\ tracerSet.val.struct_logger # None
    /\ tracerSet.val.prestate_tracer # None
    /\ count_active_tracers(tracerSet.val) = 1
    /\ ~is_mux(tracerSet.val)

\* ------------------------------------------------------------------ claims: trace execution
Executing == tOp \in {"execute", "execute_call", "execute_call_many"}

\* what an issued call traces, its tracing options left out
TargetOf(call) ==
    CASE call.method = "debug_traceTransaction" -> <<call.tx_hash>>
      [] call.method = "debug_traceCall" ->
            <<call.tx_request, call.block_id, call.options.state_overrides,
              call.options.block_overrides>>
      [] call.method = "debug_traceCallMany" ->
            <<call.bundles, call.state_context, call.options.state_overrides,
              call.options.block_overrides>>

TracingOptionsOf(call) ==
    IF call.method = "debug_traceTransaction" THEN call.options
    ELSE call.options.tracing_options

\* C6: an executed strategy issues exactly one remote call (StructLoggerOnly,
\* TracersOnly) or exactly two (Hybrid); the two are both issued before either has
\* resolved and have the same target, differing in their tracing options only.
C6_CallsIssuedPerStrategy ==
    Executing =>
        LET st == strategy.val
        IN  /\ Len(tIssued) = IF st.kind = "Hybrid" THEN 2 ELSE 1
            /\ Len(tFutures) = Len(tIssued)
            /\ st.kind = "Hybrid" =>
                  /\ TargetOf(tIssued[1]) = TargetOf(tIssued[2])
                  /\ TracingOptionsOf(tIssued[1]) = st.tracers_options
                  /\ TracingOptionsOf(tIssued[2]) = st.struct_logger_options
            /\ st.kind # "Hybrid" => TracingOptionsOf(tIssued[1]) = st.options

HybridFailed(k) ==
    /\ Executing
    /\ strategy.val.kind = "Hybrid"
    /\ tPc \in {"joining", "done"}
    /\ tFutures[k].tag = "Err"

\* C7: under Hybrid, once either call has failed the operation has returned the failure
\* of a failed call and no TracingResult; a result is a Dual of both calls' traces and
\* exists only when both succeeded.
C7_HybridFailsAsAWhole ==
    (Executing /\ strategy.val.kind = "Hybrid" /\ tPc \in {"joining", "done"}) =>
        /\ \A k \in 1..2 :
              HybridFailed(k) =>
                  /\ tPc = "done"
                  /\ tResult # None
                  /\ tResult.val.tag = "Err"
                  /\ tResult.val.err \in {tFutures[j].err : j \in {i \in 1..2 : HybridFailed(i)}}
        /\ (tResult # None /\ tResult.val.tag = "Ok") =>
              /\ \A k \in 1..2 : tFutures[k].tag = "Ok"
              /\ tResult.val.val =
                    [tag |-> "Dual", tracers_trace |-> tFutures[1].val,
                     struct_logger_trace |-> tFutures[2].val]

\* call-many: the tracers call has succeeded, the struct-logger call then fails
C7_Witness ==
    /\ tOp = "execute_call_many"
    /\ HybridFailed(2)
    /\ tFutures[1].tag = "Ok"
    /\ tResult = Some([tag |-> "Err", err |-> tFutures[2].err])

\* ------------------------------------------------------------------ claims: block context
\* simulate_transaction was called with request r
Simulating(r) == mode = "single" /\ requests = <<r>>

\* C11: block-context resolution fails with InvalidBlockContext whenever the parameters
\* carry both a block number and a block tag, whatever their values.
C11_BothSelectorsRejected ==
    \A r \in SimulationRequests :
        (Simulating(r) /\ r.block_number # None /\ r.block_tag # None) =>
            /\ determine_block_context(r).tag = "Err"
            /\ determine_block_context(r).err.kind = "InvalidBlockContext"
            /\ TryIntoPayload(r).tag = "Ok" =>
                  (output.tag = "Err" /\ output.err.kind = "InvalidBlockContext")

\* C12: with at most one of block number and block tag present, resolution succeeds:
\* Number(n) for a present block number n, Tag(t) for a present tag t, Tag(Latest) for
\* neither; a present block number is never replaced by a tag.
C12_SingleSelectorResolved ==
    \A r \in SimulationRequests :
        (Simulating(r) /\ (r.block_number = None \/ r.block_tag = None)) =>
            LET context == determine_block_context(r)
            IN  /\ context.tag = "Ok"
                /\ r.block_number # None => context.val.kind = "Number"
                /\ r.block_tag # None =>
                      context.val = [kind |-> "Tag", block_tag |-> r.block_tag.val]
                /\ (r.block_number = None /\ r.block_tag = None) =>
                      context.val = [kind |-> "Tag", block_tag |-> "Latest"]

\* ------------------------------------------------------------------ claims: simulation results
\* C13: an execution of simulate_transaction issues at most one remote simulate call and
\* never another: exactly one, with the converted payload against the resolved block
\* context, when conversion and resolution succeed, and none when either fails.
C13_AtMostOneRemoteCall ==
    \A r \in SimulationRequests :
        Simulating(r) =>
            IF TryIntoPayload(r).tag = "Ok" /\ determine_block_context(r).tag = "Ok"
            THEN /\ Len(remoteLog) = 1
                 /\ remoteLog[1].payload = TryIntoPayload(r).val
                 /\ remoteLog[1].block = determine_block_context(r).val
            ELSE remoteLog = <<>>

\* the one call failed and the operation has returned: no second call was made
C13_Witness ==
    /\ mode = "single"
    /\ RemoteFailed(1)
    /\ output # None
    /\ Len(remoteLog) = 1
    /\ remoteLog[1].block.kind = "Number"

\* the SimulationResults handed back: simulate_transaction's, and the elements of
\* simulate_batch's output, each with the item it belongs to
ReturnedResults ==
    IF output.tag # "Ok" THEN {}
    ELSE IF mode = "single" THEN {<<1, output.val>>}
    ELSE {<<i, output.val[i]>> : i \in 1..Len(output.val)}

AllCallsSucceeded(result) ==
    \A k \in 1..Len(result.calls) : result.calls[k].status = "Success"

\* C14: in every returned SimulationResult the status is Success if and only if every
\* call outcome is Success, and Failed otherwise; never Reverted.
C14_StatusIffAllCallsSucceeded ==
    \A e \in ReturnedResults :
        /\ e[2].status \in {"Success", "Failed"}
        /\ e[2].status = "Success" <=> AllCallsSucceeded(e[2])

\* the remote simulation of the single request succeeded with blocks, and a result came
\* back
RemoteSucceeded ==
    /\ mode = "single"
    /\ IsSome(itemOutcome[1])
    /\ itemOutcome[1].val.tag = "Ok"
    /\ itemOutcome[1].val.blocks # <<>>
    /\ output.tag = "Ok"

\* C15: on a successful remote simulation calls has one element per call result of the
\* first simulated block, and calls[i] is the conversion of the i-th of them with
\* call_index i: same status, same gas, same error message.
C15_OutcomesByIndex ==
    RemoteSucceeded =>
        LET remote == itemOutcome[1].val.blocks[1].calls
            calls == output.val.calls
        IN  /\ Len(calls) = Len(remote)
            /\ \A k \in 1..Len(calls) :
                  /\ calls[k].call_index = k - 1
                  /\ calls[k].status = "Success" <=> remote[k].status
                  /\ FromStrRadix16(TrimStart0x(calls[k].gas_used)) = Some(remote[k].gas_used)
                  /\ IsSome(calls[k].error) <=> IsSome(remote[k].error)
                  /\ IsSome(calls[k].error) =>
                        calls[k].error.val.message = Some(remote[k].error.val.message)

\* two blocks came back; the first one's two different call results are the outcomes
C15_Witness ==
    /\ RemoteSucceeded
    /\ Len(itemOutcome[1].val.blocks) = 2
    /\ Len(output.val.calls) = 2
    /\ output.val.calls[1].status = "Reverted"
    /\ output.val.calls[2].status = "Success"
    /\ output.val.calls[2].gas_used = <<"0", "x", "0">>

RECURSIVE SumOfGas(_)
SumOfGas(calls) ==
    IF calls = <<>> THEN 0
    ELSE LET g == FromStrRadix16(TrimStart0x(calls[1].gas_used))
         IN  (IF IsSome(g) THEN g.val ELSE 0) + SumOfGas(Tail(calls))

\* C16: the total gas_used of a result is the sum of its call outcomes' gas_used, each
\* parsed as a hex u64 (0 where it does not parse), and summing never fails the
\* simulation.
C16_TotalGasIsSum ==
    /\ (mode = "single" /\ output.tag = "Ok") =>
          FromStrRadix16(TrimStart0x(output.val.gas_used)) = Some(SumOfGas(output.val.calls))
    /\ (mode = "single" /\ IsSome(itemOutcome[1]) /\ itemOutcome[1].val.tag = "Ok"
        /\ itemOutcome[1].val.blocks # <<>>) => output.tag = "Ok"

\* ------------------------------------------------------------------ claims: error taxonomy
\* the string fields of an RpcError: details, message, method, reason, data
RpcErrorTexts(e) ==
    CASE e.kind = "ConnectionFailed" -> {e.details}
      [] e.kind = "Timeout" -> {e.method}
      [] e.kind = "MethodNotFound" -> {e.method}
      [] e.kind = "InvalidParams" -> {e.method, e.details}
      [] e.kind = "InternalError" -> {e.message} \cup (IF IsSome(e.data) THEN {e.data.val} ELSE {})
      [] e.kind = "ParseError" -> {e.details}
      [] e.kind = "ExecutionReverted" ->
            {e.reason} \cup (IF IsSome(e.data) THEN {e.data.val} ELSE {})
      [] OTHER -> {}

\* C17: the RpcError classified from any transport/RPC failure holds, in none of its
\* string fields, a URL or an IPv4 literal of the upstream error text.
C17_ClassifiedErrorSanitized ==
    (mode = "single" /\ RemoteFailed(1)) =>
        \A text \in RpcErrorTexts(RpcErrorFrom(itemOutcome[1].val.err)) :
            ~HasUrl(text) /\ ~HasIp(text)

\* C19: wrapping keeps the classification: ServiceError::NodeCommunication(r) and
\* ApiError::Service(ServiceError::NodeCommunication(r)) report the error_code, the
\* suggestion and the status code of the RpcError r they wrap.
C19_WrappingKeepsClassification ==
    /\ IsSome(serviceError) =>
          /\ ServiceErrorCode(serviceError.val) = RpcErrorCode(rpcError.val)
          /\ ServiceErrorSuggestion(serviceError.val) = RpcErrorSuggestion(rpcError.val)
          /\ ServiceErrorStatusCode(serviceError.val) = RpcErrorStatusCode(rpcError.val)
    /\ IsSome(apiError) =>
          /\ ApiErrorCode(apiError.val) = RpcErrorCode(rpcError.val)
          /\ ApiErrorSuggestion(apiError.val) = RpcErrorSuggestion(rpcError.val)
          /\ ApiErrorStatusCode(apiError.val) = RpcErrorStatusCode(rpcError.val)

\* a reverted execution, wrapped twice, still answers 200 and EXECUTION_REVERTED
C19_Witness ==
    /\ IsSome(apiError)
    /\ apiError.val = ApiErrorFrom(NodeCommunication(rpcError.val))
    /\ rpcError.val.kind = "ExecutionReverted"
    /\ ApiErrorStatusCode(apiError.val) = 200
    /\ ApiErrorCode(apiError.val) = "EXECUTION_REVERTED"

\* ------------------------------------------------------------------ claims: error propagation
\* the transport errors that remote calls of the running operation have failed with
FailuresSeen ==
    {tFutures[k].cause : k \in {j \in 1..Len(tFutures) : tFutures[j].tag = "Err"}}
    \cup (IF receipt.tag = "Err" THEN {receipt.cause} ELSE {})

\* C18: trace_transaction, trace_call, trace_call_many and create_access_list never
\* absorb a remote failure: once a remote call of theirs has failed, they return
\* Err(ServiceError::NodeCommunication(r)), r the classification of a failure, never Ok,
\* and the handler answers with the ApiError made of that error.
C18_RemoteFailurePropagates ==
    (sOp # "none" /\ IsSome(serviceResult) /\ FailuresSeen # {}) =>
        \E cause \in FailuresSeen :
            /\ serviceResult.val =
                  [tag |-> "Err", err |-> NodeCommunication(RpcErrorFrom(cause))]
            /\ handlerResult =
                  Some([tag |-> "Err",
                        err |-> ApiErrorFrom(NodeCommunication(RpcErrorFrom(cause)))])

\* trace_transaction whose trace came through and whose receipt fetch was rate limited
C18_Witness ==
    /\ sOp = "trace_transaction"
    /\ IsSome(tResult) /\ tResult.val.tag = "Ok"
    /\ receipt.tag = "Err"
    /\ IsSome(handlerResult) /\ handlerResult.val.tag = "Err"
    /\ ApiErrorCode(handlerResult.val.err) = "RPC_RATE_LIMITED"
    /\ ApiErrorStatusCode(handlerResult.val.err) = 429

\* ------------------------------------------------------------------ claims: trace normalization
\* the trace carries a frame of the tracer type, as itself or as a mux entry of that type
TaggedIn(trace, type) ==
    \/ trace.tag = type
    \/ trace.tag = "MuxTracer" /\ \E e \in trace.entries : e[1] = type /\ e[2].tag = type

\* C20: normalizing a trace outcome routes each tagged frame to its matching field
\* only. Of the outcome's tracers trace (the trace of a Single), a call, prestate or
\* four-byte frame, or a mux entry keyed by that tracer, sets callTracer, prestateTracer
\* or fourByteTracer; a default frame (the trace of a Single, the struct-logger trace of
\* a Dual) sets structLogger; the field of a tracer that is not in the payload stays
\* absent.
C20_FramesRoutedToMatchingFields ==
    (/\ sOp \in {"trace_transaction", "trace_call"}
     /\ IsSome(serviceResult) /\ serviceResult.val.tag = "Ok") =>
        LET result == serviceResult.val.val.trace_result
            tracers == IF result.tag = "Single" THEN result.trace ELSE result.tracers_trace
            logger == IF result.tag = "Single" THEN result.trace
                      ELSE result.struct_logger_trace
        IN  (tracers.tag # "JS" /\ logger.tag # "JS") =>
                /\ handlerResult.val.tag = "Ok"
                /\ IsSome(handlerResult.val.val.call_tracer) <=> TaggedIn(tracers, "CallTracer")
                /\ IsSome(handlerResult.val.val.prestate_tracer)
                      <=> TaggedIn(tracers, "PreStateTracer")
                /\ IsSome(handlerResult.val.val.four_byte_tracer)
                      <=> TaggedIn(tracers, "FourByteTracer")
                /\ IsSome(handlerResult.val.val.struct_logger) <=> logger.tag = "Default"

\* ------------------------------------------------------------------ claims: auth middleware
\* the middleware has just decided on a request
AuthDecided == authOutcome = "none" /\ authOutcome' # "none"

\* the header is the token, or "Bearer " followed by the token
HeaderNamesToken(token, request) ==
    /\ IsSome(request.authorization)
    /\ \/ request.authorization.val = token
       \/ request.authorization.val = BearerPrefix \o token

\* the header is the token, or one or more "Bearer " followed by the token with
\* whitespace around it, the token itself starting and ending without whitespace
HeaderCarriesToken(token, request) ==
    /\ IsSome(request.authorization)
    /\ LET h == request.authorization.val
       IN  /\ \A i \in 1..Len(h) : h[i] \in AuthAlphabet
           /\ \/ ~starts_with(h, BearerPrefix) /\ h = token
              \/ \E n \in 1..Len(h), a \in 0..Len(h), b \in 0..Len(h) :
                    /\ 2 * n + a + Len(token) + b = Len(h)
                    /\ \A k \in 1..n : h[2 * k - 1] = "Bearer" /\ h[2 * k] = " "
                    /\ ~starts_with(SubSeq(h, 2 * n + 1, Len(h)), BearerPrefix)
                    /\ \A k \in 1..a : h[2 * n + k] = " "
                    /\ \A k \in 1..b : h[Len(h) - b + k] = " "
                    /\ SubSeq(h, 2 * n + a + 1, Len(h) - b) = token
                    /\ token[1] # " " /\ token[Len(token)] # " "

\* C26 as stated: with a non-empty token a request is forwarded only if its
\* Authorization header equals the token or is "Bearer " followed by the token, every
\* other request is rejected as Unauthorized without the inner service being called;
\* with an empty token every request is forwarded.
C26_ForwardedOnlyWithExactHeader ==
    [][AuthDecided =>
          IF api_token.val = <<>>
          THEN authOutcome' = "forwarded" /\ innerCalls' = innerCalls + 1
          ELSE /\ authOutcome' = "forwarded" => HeaderNamesToken(api_token.val, authRequest'.val)
               /\ ~HeaderNamesToken(api_token.val, authRequest'.val) =>
                     authOutcome' = "unauthorized" /\ innerCalls' = innerCalls]_vars

\* C26 amended: with a non-empty token a request is forwarded only if its Authorization
\* header is readable text that equals the token, or starts with "Bearer " and equals
\* the token once every leading "Bearer " and then the whitespace around the rest are
\* taken off; every other request is rejected as Unauthorized without the inner service
\* being called; with an empty token every request is forwarded.
C26_ForwardedOnlyWithToken ==
    [][AuthDecided =>
          IF api_token.val = <<>>
          THEN authOutcome' = "forwarded" /\ innerCalls' = innerCalls + 1
          ELSE /\ authOutcome' = "forwarded" =>
                     HeaderCarriesToken(api_token.val, authRequest'.val)
                     /\ innerCalls' = innerCalls + 1
               /\ ~HeaderCarriesToken(api_token.val, authRequest'.val) =>
                     authOutcome' = "unauthorized" /\ innerCalls' = innerCalls]_vars

\* a request is forwarded on a header that holds more than "Bearer " and the token
C26_Witness ==
    /\ authOutcome = "forwarded"
    /\ api_token.val # <<>>
    /\ ~HeaderNamesToken(api_token.val, authRequest.val)
    /\ authRequest.val.x_forwarded_for # None

\* ------------------------------------------------------------------ claims: trace responses
\* the positions of a log sequence where a refund value appears: it is present there and
\* the entry is the first or the refund value is absent just before
RefundStarts(struct_logs) ==
    {i \in 1..Len(struct_logs) :
        /\ IsSome(struct_logs[i].refund_counter)
        /\ i = 1 \/ ~IsSome(struct_logs[i - 1].refund_counter)}

\* the sum of the refund values at the positions
RECURSIVE RefundSum(_, _)
RefundSum(struct_logs, positions) ==
    IF positions = {} THEN 0
    ELSE LET i == CHOOSE p \in positions : TRUE
         IN  struct_logs[i].refund_counter.val + RefundSum(struct_logs, positions \ {i})

\* C23: for every struct-log frame the conversion yields a response whose refund_counter
\* is the number of positions where a refund value appears (present there, and first or
\* absent just before), whose total_gas_refunded is the sum of the refund values at those
\* positions, whose total_opcodes is the length of the log sequence and whose total_gas
\* is the frame's gas.
C23_StructLogTotals ==
    cOp = "struct_log_from" =>
        LET frame == cInput.val.frame
            starts == RefundStarts(frame.struct_logs)
        IN  /\ cOutput.val.tag = "Ok"
            /\ cOutput.val.val.refund_counter = Some(Cardinality(starts))
            /\ cOutput.val.val.total_gas_refunded = Some(RefundSum(frame.struct_logs, starts))
            /\ cOutput.val.val.total_opcodes = Len(frame.struct_logs)
            /\ cOutput.val.val.total_gas = frame.gas

\* the same totals where the refund values sum to no more than u64::MAX
C23_TotalsWhileSumFits ==
    cOp = "struct_log_from" =>
        LET frame == cInput.val.frame
            starts == RefundStarts(frame.struct_logs)
        IN  RefundSum(frame.struct_logs, starts) <= U64Max =>
                /\ cOutput.val.tag = "Ok"
                /\ cOutput.val.val.refund_counter = Some(Cardinality(starts))
                /\ cOutput.val.val.total_gas_refunded
                      = Some(RefundSum(frame.struct_logs, starts))
                /\ cOutput.val.val.total_opcodes = Len(frame.struct_logs)
                /\ cOutput.val.val.total_gas = frame.gas

\* the nodes of a call tree, each as the path of sub-call indices that leads to it from
\* the root
RECURSIVE NodePaths(_)
NodePaths(node) ==
    {<<>>} \cup UNION {{<<i>> \o p : p \in NodePaths(node.calls[i])} : i \in 1..Len(node.calls)}

\* the node of a call tree at a path
RECURSIVE NodeAt(_, _)
NodeAt(node, path) ==
    IF path = <<>> THEN node ELSE NodeAt(node.calls[path[1]], Tail(path))

\* the largest of a non-empty set of numbers
MaxOf(numbers) == CHOOSE n \in numbers : \A m \in numbers : m <= n

\* C24: for every call tree the converted response has total_calls equal to the number
\* of nodes of the tree, the root included, and max_depth equal to the largest depth of a
\* node with the root at depth 0; the root's depth is 0 and every other node's depth is
\* its parent's depth plus 1 (so the depth of a node is the length of its path); the
\* converted tree has the same nodes, each with as many sub-calls as in the frame, and
\* the sub-calls keep their order: the node at a path is the conversion of the frame's
\* node at that path.
C24_CallTreeStats ==
    cOp = "call_trace_from" =>
        LET frame == cInput.val.frame
            response == cOutput.val.val
            paths == NodePaths(frame)
        IN  /\ response.total_calls = Cardinality(paths)
            /\ response.max_depth = MaxOf({Len(p) : p \in paths})
            /\ response.root_call.depth = 0
            /\ NodePaths(response.root_call) = paths
            /\ \A p \in paths :
                  /\ NodeAt(response.root_call, p).depth = Len(p)
                  /\ p # <<>> =>
                        NodeAt(response.root_call, p).depth
                           = NodeAt(response.root_call, SubSeq(p, 1, Len(p) - 1)).depth + 1
                  /\ NodeAt(response.root_call, p).call_type = NodeAt(frame, p).typ
                  /\ NodeAt(response.root_call, p).error = NodeAt(frame, p).error
                  /\ NodeAt(response.root_call, p).reverted = IsSome(NodeAt(frame, p).error)

\* a tree with a node at depth 2 and a node with two sub-calls of different call types
\* has been converted
C24_Witness ==
    /\ cOp = "call_trace_from"
    /\ cOutput.val.val.total_calls = 4
    /\ cOutput.val.val.max_depth = 2
    /\ \E p \in NodePaths(cInput.val.frame) :
          /\ Len(NodeAt(cInput.val.frame, p).calls) = 2
          /\ NodeAt(cInput.val.frame, p).calls[1].typ # NodeAt(cInput.val.frame, p).calls[2].typ

\* C25: clean on a response removes only the per-opcode log array of its struct-log
\* result: afterwards the array is absent and total_opcodes, total_gas,
\* total_gas_refunded, refund_counter, error and output are what they were, as is every
\* other field of the response; a response that was cleaned before, and a response
\* without a struct-log result, come out as they went in.
C25_CleanDropsOnlyTheLogs ==
    cOp = "clean_struct_logger" =>
        LET before == cInput.val
            after == cOutput.val.val
        IN  /\ after.receipt = before.receipt
            /\ after.call_tracer = before.call_tracer
            /\ after.prestate_tracer = before.prestate_tracer
            /\ after.four_byte_tracer = before.four_byte_tracer
            /\ IsSome(after.struct_logger) <=> IsSome(before.struct_logger)
            /\ IsSome(before.struct_logger) =>
                  /\ after.struct_logger.val.inner = None
                  /\ after.struct_logger.val.total_opcodes
                        = before.struct_logger.val.total_opcodes
                  /\ after.struct_logger.val.total_gas = before.struct_logger.val.total_gas
                  /\ after.struct_logger.val.total_gas_refunded
                        = before.struct_logger.val.total_gas_refunded
                  /\ after.struct_logger.val.refund_counter
                        = before.struct_logger.val.refund_counter
                  /\ after.struct_logger.val.error = before.struct_logger.val.error
                  /\ after.struct_logger.val.output = before.struct_logger.val.output
            /\ (IsSome(before.struct_logger) /\ before.struct_logger.val.inner = None) =>
                  after = before
            /\ ~IsSome(before.struct_logger) => after = before

\* a response with three struct logs, an error and an output has been cleaned
C25_Witness ==
    /\ cOp = "clean_struct_logger"
    /\ IsSome(cInput.val.struct_logger)
    /\ IsSome(cInput.val.struct_logger.val.inner)
    /\ cInput.val.struct_logger.val.total_opcodes = 3
    /\ IsSome(cInput.val.struct_logger.val.error)
    /\ IsSome(cInput.val.struct_logger.val.output)
    /\ cOutput.val.val.struct_logger.val.inner = None

\* a cleaned response has been cleaned again
C25_WitnessTwice ==
    /\ cOp = "clean_struct_logger"
    /\ IsSome(cInput.val.struct_logger)
    /\ cInput.val.struct_logger.val.inner = None

\* a response without a struct-log result has been cleaned
C25_WitnessWithout ==
    /\ cOp = "clean_struct_logger"
    /\ ~IsSome(cInput.val.struct_logger)
    /\ IsSome(cInput.val.call_tracer)

\* the fields of a response that are set
FieldsSet(response) ==
    {f \in {"call_tracer", "prestate_tracer", "struct_logger", "four_byte_tracer"} :
        IsSome(response[f])}

\* the field the fixed order four-byte, call, prestate, struct-log gives an object to:
\* that of the earliest shape it decodes as, none when it decodes as no shape
FieldByOrder(value) ==
    IF IsSome(from_value_FourByteFrame(value)) THEN Some("four_byte_tracer")
    ELSE IF IsSome(from_value_CallFrame(value)) THEN Some("call_tracer")
    ELSE IF IsSome(from_value_PreStateFrame(value)) THEN Some("prestate_tracer")
    ELSE IF IsSome(from_value_DefaultFrame(value)) THEN Some("struct_logger")
    ELSE None

\* the fields an object keyed by tracer name sets: those whose name is a key with data
\* that decodes as the tracer's shape
FieldsByName(value) ==
    {f \in {"call_tracer", "prestate_tracer", "four_byte_tracer"} :
        \E m \in value.members :
            \/ f = "four_byte_tracer" /\ m[1] = <<"4byteTracer">>
                  /\ IsSome(from_value_FourByteFrame(m[2]))
            \/ f = "call_tracer" /\ m[1] = <<"callTracer">>
                  /\ IsSome(from_value_CallFrame(m[2]))
            \/ f = "prestate_tracer" /\ m[1] = <<"prestateTracer">>
                  /\ IsSome(from_value_PreStateFrame(m[2]))}

\* the extraction from an object into an empty response has set the fields the claim
\* gives it
ObjectDecodedInOrder(value, result) ==
    /\ result.tag = "Ok"
    /\ IF IsSome(FieldByOrder(value))
       THEN FieldsSet(result.val) = {FieldByOrder(value).val}
       ELSE FieldsSet(result.val) = FieldsByName(value)

\* C21: an untyped payload object is decoded in the fixed order four-byte, call,
\* prestate, struct-log: the first shape that decodes sets its field and nothing else is
\* tried, so an object that decodes as several shapes goes to the earliest; only an
\* object that decodes as none of the four is read as a map keyed by tracer name, each
\* entry set into the field of its tracer.
C21_JsDecodedInFixedOrder ==
    (cOp = "extract_from_js_trace" /\ IsJObj(cInput.val)) =>
        ObjectDecodedInOrder(cInput.val, cOutput.val)

\* the same for the objects whose four-byte identifiers are all well formed
C21_InOrderWhereIdentifiersParse ==
    (cOp = "extract_from_js_trace" /\ IsJObj(cInput.val) /\ cOutput.val.tag = "Ok") =>
        ObjectDecodedInOrder(cInput.val, cOutput.val)

\* the empty object, which decodes as a four-byte frame and as a prestate frame, has
\* been given to the four-byte field
C21_EmptyObjectIsFourByte ==
    /\ cOp = "extract_from_js_trace"
    /\ cInput.val = JsEmptyObject
    /\ IsSome(from_value_PreStateFrame(cInput.val))
    /\ FieldsSet(cOutput.val.val) = {"four_byte_tracer"}

\* ------------------------------------------------------------------ claims: call-many results
\* trace_call_many has returned its responses
CallManyReturned ==
    /\ sOp = "trace_call_many"
    /\ IsSome(serviceResult) /\ serviceResult.val.tag = "Ok"

\* C22: trace_call_many returns its responses in the order of the traces the remote
\* returned. Under a single-call strategy there is one response per trace of the remote's
\* list and the i-th response is built from the i-th trace; under Hybrid the i-th
\* response pairs the i-th trace of the tracers list with the i-th trace of the
\* struct-logger list, whichever of the two remote calls completed first.
C22_ResponsesInRemoteOrder ==
    CallManyReturned =>
        LET responses == serviceResult.val.val
        IN  IF strategy.val.kind = "Hybrid"
            THEN \A i \in 1..Len(responses) :
                    /\ i <= Len(tFutures[1].val) /\ i <= Len(tFutures[2].val)
                    /\ responses[i].trace_result
                          = [tag |-> "Dual", tracers_trace |-> tFutures[1].val[i],
                             struct_logger_trace |-> tFutures[2].val[i]]
            ELSE /\ Len(responses) = Len(tFutures[1].val)
                 /\ \A i \in 1..Len(responses) :
                       responses[i].trace_result
                          = [tag |-> "Single", trace |-> tFutures[1].val[i]]

\* a Hybrid trace_call_many has returned two responses from two lists of two traces
C22_Witness ==
    /\ CallManyReturned
    /\ strategy.val.kind = "Hybrid"
    /\ Len(serviceResult.val.val) = 2
    /\ tFutures[1].val # tFutures[2].val
    /\ tFutures[1].val[1] # tFutures[1].val[2]
    /\ tFutures[2].val[1] # tFutures[2].val[2]

\* the struct-logger call of a Hybrid trace_call_many has completed, the tracers call
\* has not
C22_StructLoggerCallFirst ==
    /\ sOp = "trace_call_many"
    /\ IsSome(strategy) /\ strategy.val.kind = "Hybrid"
    /\ Len(tFutures) = 2
    /\ tFutures[1] = Pending
    /\ tFutures[2].tag = "Ok"

\* C29: when the two lists of traces of a Hybrid call-many differ in length, as many
\* results come back as the shorter list has traces, each pairing the i-th traces of
\* both lists; the surplus of the longer list is dropped and no error is reported. When
\* the lengths are equal no trace is dropped.
C29_DualListsCutToTheShorter ==
    (/\ sOp = "trace_call_many"
     /\ IsSome(strategy) /\ strategy.val.kind = "Hybrid"
     /\ IsSome(tResult) /\ tResult.val.tag = "Ok"
     /\ IsSome(serviceResult)) =>
        LET tracers == tResult.val.val.tracers_trace
            struct_logger == tResult.val.val.struct_logger_trace
            shorter == IF Len(tracers) <= Len(struct_logger) THEN tracers ELSE struct_logger
        IN  /\ serviceResult.val.tag = "Ok"
            /\ Len(serviceResult.val.val) = Len(shorter)
            /\ \A i \in 1..Len(shorter) :
                  /\ serviceResult.val.val[i].trace_result.tracers_trace = tracers[i]
                  /\ serviceResult.val.val[i].trace_result.struct_logger_trace
                        = struct_logger[i]
            /\ Len(tracers) = Len(struct_logger) =>
                  /\ Len(serviceResult.val.val) = Len(tracers)
                  /\ Len(serviceResult.val.val) = Len(struct_logger)

\* a Hybrid trace_call_many whose tracers call answered with two traces and whose
\* struct-logger call answered with one has returned one response
C29_Witness ==
    /\ CallManyReturned
    /\ strategy.val.kind = "Hybrid"
    /\ Len(tResult.val.val.tracers_trace) = 2
    /\ Len(tResult.val.val.struct_logger_trace) = 1
    /\ Len(serviceResult.val.val) = 1

\* ------------------------------------------------------------------ claims: transaction trace
\* trace_transaction has made its remote calls
TraceTransactionCalled == sOp = "trace_transaction" /\ tIssued # <<>>

\* C28: trace_transaction runs the trace call(s) and the receipt fetch side by side and
\* returns once the trace is through and the receipt fetch has resolved. It returns Ok
\* only when every trace call succeeded and the receipt fetch returned a receipt, and the
\* response then carries that receipt; a failed trace call yields NodeCommunication with
\* that call's error, also when the receipt fetch succeeded or failed as well; a trace
\* that succeeded with a failed receipt fetch yields NodeCommunication, with no receipt
\* found TraceFailed.
C28_TraceAndReceiptJoined ==
    TraceTransactionCalled =>
        /\ Len(tFutures) = Len(tIssued)
        /\ IsSome(serviceResult) <=> (IsSome(tResult) /\ receipt # Pending)
        /\ IsSome(serviceResult) =>
              LET failed == {k \in 1..Len(tFutures) : tFutures[k].tag = "Err"}
                  returned == serviceResult.val
              IN  /\ returned.tag = "Ok" <=>
                        /\ \A k \in 1..Len(tFutures) : tFutures[k].tag = "Ok"
                        /\ receipt.tag = "Ok" /\ IsSome(receipt.val)
                  /\ returned.tag = "Ok" =>
                        /\ returned.val.receipt
                              = Some(TransactionReceiptInfoFrom(receipt.val.val))
                        /\ returned.val.trace_result = tResult.val.val
                  /\ failed # {} =>
                        \E k \in failed :
                            returned = [tag |-> "Err",
                                        err |-> NodeCommunication(tFutures[k].err)]
                  /\ (failed = {} /\ receipt.tag = "Err") =>
                        returned = [tag |-> "Err",
                                    err |-> NodeCommunication(RpcErrorFrom(receipt.cause))]
                  /\ (failed = {} /\ receipt.tag = "Ok" /\ ~IsSome(receipt.val)) =>
                        /\ returned.tag = "Err"
                        /\ returned.err.kind = "TraceFailed"

\* trace_transaction whose trace call and whose receipt fetch both failed, with
\* different errors, has returned the trace call's
C28_Witness ==
    /\ TraceTransactionCalled
    /\ IsSome(serviceResult)
    /\ tFutures[1].tag = "Err"
    /\ receipt.tag = "Err"
    /\ RpcErrorFrom(receipt.cause) # tFutures[1].err
    /\ serviceResult.val = [tag |-> "Err", err |-> NodeCommunication(tFutures[1].err)]

\* trace_transaction under Hybrid has returned Ok with the receipt
C28_WitnessOk ==
    /\ TraceTransactionCalled
    /\ strategy.val.kind = "Hybrid"
    /\ IsSome(serviceResult) /\ serviceResult.val.tag = "Ok"
    /\ IsSome(serviceResult.val.val.receipt)

\* trace_transaction whose trace came through and whose receipt was not found
C28_WitnessNoReceipt ==
    /\ TraceTransactionCalled
    /\ IsSome(serviceResult) /\ serviceResult.val.tag = "Err"
    /\ serviceResult.val.err.kind = "TraceFailed"

\* ------------------------------------------------------------------ claims: call overrides
\* execute_call was called with a request one of whose overrides is present and does not
\* convert
OverrideFailsConversion ==
    /\ tOp = "execute_call"
    /\ \/ tRequest.val.state_overrides = Some("invalid")
       \/ tRequest.val.block_overrides = Some("invalid")

\* the override a call is to carry for a request's override: none for one that is absent
\* or does not convert, the converted override otherwise
OverrideApplied(overrides) ==
    IF overrides = None \/ overrides = Some("invalid") THEN None
    ELSE Some([alloy |-> overrides.val])

\* the calls of execute_call are issued, each without the override that does not convert
\* and with the other when it converts, and an error the operation returns is one of a
\* remote call
OverridesDroppedCallsIssued ==
    /\ tPc \in {"joining", "done"}
    /\ Len(tIssued) = IF strategy.val.kind = "Hybrid" THEN 2 ELSE 1
    /\ \A k \in 1..Len(tIssued) :
          /\ tIssued[k].method = "debug_traceCall"
          /\ tIssued[k].options.state_overrides
                = OverrideApplied(tRequest.val.state_overrides)
          /\ tIssued[k].options.block_overrides
                = OverrideApplied(tRequest.val.block_overrides)
    /\ (IsSome(tResult) /\ tResult.val.tag = "Err") =>
          \E k \in 1..Len(tFutures) :
              tFutures[k].tag = "Err" /\ tFutures[k].err = tResult.val.err

\* C30: in execute_call, state overrides or block overrides that are present and fail
\* conversion are dropped and the remote debug call (both calls under Hybrid) is still
\* issued without them; no error is returned to the caller for the failed conversion,
\* and the other override, when it converts, is still applied.
C30_FailedOverridesDropped ==
    OverrideFailsConversion => OverridesDroppedCallsIssued

\* the same for the requests whose call converts
C30_DroppedWhereCallConverts ==
    (OverrideFailsConversion /\ ConvertCall(tRequest.val.call).tag = "Ok") =>
        OverridesDroppedCallsIssued

\* a Hybrid execute_call whose state overrides do not convert and whose block overrides
\* do has issued its two calls
C30_HybridIssuedWithoutStateOverrides ==
    /\ OverrideFailsConversion
    /\ strategy.val.kind = "Hybrid"
    /\ tRequest.val.state_overrides = Some("invalid")
    /\ tRequest.val.block_overrides = Some("valid")
    /\ Len(tIssued) = 2
    /\ tIssued[2].options.state_overrides = None
    /\ tIssued[2].options.block_overrides = Some([alloy |-> "valid"])

\* ------------------------------------------------------------------ claims: batch placeholders
\* the tokens of a text
TokensOf(text) == {text[k] : k \in 1..Len(text)}

\* C27: where simulate_transaction returned Err for an item of a returned batch, the
\* item's result has status Failed and exactly one call outcome, with call_index 0 and
\* status Reverted, however many calls the request has; the outcome's reason is
\* 'Simulation service error occurred' and its error type 'simulation-error', and no
\* text of the underlying error is in it.
C27_ErrItemIsFixedPlaceholder ==
    (mode = "batch" /\ requests # <<>> /\ output # None) =>
        \A i \in 1..Len(requests) :
            itemResult[i].tag = "Err" =>
                LET result == output.val[i]
                IN  /\ result.status = "Failed"
                    /\ result.simulation_id = batchIds[i]
                    /\ Len(result.calls) = 1
                    /\ result.calls[1].call_index = 0
                    /\ result.calls[1].status = "Reverted"
                    /\ IsSome(result.calls[1].error)
                    /\ result.calls[1].error.val.reason
                          = <<"Simulation service error occurred">>
                    /\ result.calls[1].error.val.error_type = "simulation-error"
                    /\ TokensOf(result.calls[1].error.val.reason)
                          \cap TokensOf(itemResult[i].err.reason) = {}
                    /\ IsSome(result.calls[1].error.val.message) =>
                          TokensOf(result.calls[1].error.val.message.val)
                             \cap TokensOf(itemResult[i].err.reason) = {}

\* a returned batch with an item of two calls whose conversion failed
C27_Witness ==
    /\ mode = "batch"
    /\ output # None /\ output.tag = "Ok"
    /\ \E i \in 1..Len(requests) :
          /\ call_count(requests[i]) = 2
          /\ itemResult[i].tag = "Err"
          /\ itemResult[i].err.kind = "SimulationFailed"
          /\ Len(output.val[i].calls) = 1

\* a returned batch with an item that named both block selectors
C27_WitnessBothSelectors ==
    /\ mode = "batch"
    /\ output # None /\ output.tag = "Ok"
    /\ \E i \in 1..Len(requests) :
          /\ itemResult[i].tag = "Err"
          /\ itemResult[i].err.kind = "InvalidBlockContext"

\* a returned batch with an item whose remote call answered with no block
C27_WitnessNoBlocks ==
    /\ mode = "batch"
    /\ output # None /\ output.tag = "Ok"
    /\ \E i \in 1..Len(requests) :
          /\ itemResult[i].tag = "Err"
          /\ itemOutcome[i] # None

====
